---- MODULE Spec2Model ----
(***************************************************************************)
(* Doqu: processor registries, storage adapter, query adapter and document *)
(* entity (doqu/backend_base.py, doqu/document_base.py, doqu/ext/shelve_db)*)
(***************************************************************************)
EXTENDS Integers, Sequences, FiniteSets, TLC

VARIABLES
    processors,   \* ProcessorManager.processors: key -> processor
    default,      \* ProcessorManager.default
    first_reg,    \* history: key -> processor of the first successful register since the last unregister
    reg,          \* the last registry call and its outcome
    connection,   \* BaseStorageAdapter.connection
    records,      \* the shelf behind the adapter: primary key -> stored dict
    calls,        \* backend primitives invoked by the last public adapter call, in order
    ret,          \* the last adapter call and its outcome
    other,        \* the shelf behind a second, connected storage adapter
    queries,      \* the Query instances created so far, in creation order
    qret,         \* the last query call and its outcome
    docs,         \* the Document instances the application holds, in creation order
    meta,         \* Document.meta of the document class
    dret,         \* the last document call and its outcome
    classes       \* the Document classes declared so far, in declaration order

vars == <<processors, default, first_reg, reg, connection, records, calls, ret,
          other, queries, qret, docs, meta, dret, classes>>
doc_vars == <<docs, meta, dret, classes>>
query_vars == <<queries, qret>>
registry_vars == <<processors, default, first_reg, reg>>
adapter_vars == <<connection, records, calls, ret, other>>

\* Python's None
None == "None"

-----------------------------------------------------------------------------
(* Python values: a type name, a payload and the number of to-storage       *)
(* encodings applied to the payload.                                        *)

PyNone == [t |-> "NoneType", v |-> "None", enc |-> 0]
PyText(s) == [t |-> "unicode", v |-> s, enc |-> 0]
PyInt(s) == [t |-> "int", v |-> s, enc |-> 0]

\* the largest number of encodings kept on a stored value
MaxEnc == 2

\* the error marker returned by a converter that raised ValueError
ValueError == [t |-> "ValueError", v |-> "ValueError", enc |-> 0]

\* the document classes of the application
Documents == {"Document", "Note", "Contact", "Author", "Book"}

\* converter to_db of the backend, by type(value): text is escaped once more
\* on every call, a document (v: its primary key) is stored as its primary
\* key, int and None are stored natively
converter_to_db(value) ==
    IF value.t = "unicode" THEN [value EXCEPT !.enc = @ + 1]
    ELSE IF value.t \in Documents
         THEN IF value.v = None THEN PyNone ELSE PyText(value.v)
    ELSE value

\* converter from_db of the backend, by declared datatype: the inverse of
\* converter_to_db on what converter_to_db produces, ValueError otherwise
converter_from_db(datatype, value) ==
    IF value = PyNone THEN PyNone
    ELSE IF datatype = "unicode"
         THEN IF value.t = "unicode" /\ value.enc > 0
              THEN [value EXCEPT !.enc = @ - 1] ELSE ValueError
         ELSE IF value.t = datatype /\ value.enc = 0 THEN value ELSE ValueError

\* BaseStorageAdapter.value_to_db / value_from_db
value_to_db(value) == converter_to_db(value)
value_from_db(datatype, value) == converter_from_db(datatype, value)

-----------------------------------------------------------------------------
(* Processor registry (ProcessorManager)                                   *)

\* registry keys: None and '' are the false keys, the others operator names
Keys == {None, "", "equals", "gt"}
Processors == {"exact_match", "greater_than"}
Truthy(x) == x \notin {None, ""}

NoCall == [op |-> "init", key |-> None, processor |-> None, as_default |-> FALSE,
           raised |-> None, value |-> None]

\* ProcessorManager._preprocess_key
preprocess_key(key) == key

\* register that lets a later registration win and take the default
register_override(procs, dflt, key, as_default, processor) ==
    [processors |-> [k \in DOMAIN procs \cup {key} |->
                        IF k = key THEN processor ELSE procs[k]],
     default |-> IF as_default THEN processor ELSE dflt,
     raised |-> None, value |-> processor]

\* ProcessorManager.register(key, default)(processor): the new registry and outcome
register(procs, dflt, key, as_default, processor) ==
    IF key \in DOMAIN procs
    THEN [processors |-> procs, default |-> dflt, raised |-> "RuntimeError", value |-> None]
    ELSE [processors |-> [k \in DOMAIN procs \cup {key} |->
                             IF k = key THEN processor ELSE procs[k]],
          default |-> IF as_default THEN processor ELSE dflt,
          raised |-> None, value |-> processor]

\* unregister that returns the handler and keeps the mapping
unregister_kept(procs, dflt, key) ==
    IF key \notin DOMAIN procs
    THEN [processors |-> procs, default |-> dflt,
          raised |-> "DataProcessorDoesNotExist", value |-> None]
    ELSE [processors |-> procs, default |-> dflt, raised |-> None, value |-> procs[key]]

\* unregister that forgets the default when its handler is removed
unregister_default(procs, dflt, key) ==
    IF key \notin DOMAIN procs
    THEN [processors |-> procs, default |-> dflt,
          raised |-> "DataProcessorDoesNotExist", value |-> None]
    ELSE [processors |-> [k \in DOMAIN procs \ {key} |-> procs[k]],
          default |-> IF dflt = procs[key] THEN None ELSE dflt,
          raised |-> None, value |-> procs[key]]

\* ProcessorManager.unregister(key)
unregister(procs, dflt, key) ==
    IF key \notin DOMAIN procs
    THEN [processors |-> procs, default |-> dflt,
          raised |-> "DataProcessorDoesNotExist", value |-> None]
    ELSE [processors |-> [k \in DOMAIN procs \ {key} |-> procs[k]],
          default |-> dflt, raised |-> None, value |-> procs[key]]

\* get_processor that falls back to the default on every miss
get_processor_fallback(procs, dflt, value) ==
    LET key == preprocess_key(value) IN
    IF key \in DOMAIN procs THEN [raised |-> None, value |-> procs[key]]
    ELSE IF dflt # None THEN [raised |-> None, value |-> dflt]
    ELSE [raised |-> "DataProcessorDoesNotExist", value |-> None]

\* ProcessorManager.get_processor(value)
get_processor(procs, dflt, value) ==
    LET key == preprocess_key(value) IN
    IF Truthy(key)
    THEN IF key \in DOMAIN procs
         THEN [raised |-> None, value |-> procs[key]]
         ELSE [raised |-> "DataProcessorDoesNotExist", value |-> None]
    ELSE IF dflt # None
         THEN [raised |-> None, value |-> dflt]
         ELSE [raised |-> "DataProcessorDoesNotExist", value |-> None]

Register ==
    \E key \in Keys, processor \in Processors, as_default \in BOOLEAN :
        LET r == register(processors, default, key, as_default, processor) IN
        /\ processors' = r.processors
        /\ default' = r.default
        /\ first_reg' = IF r.raised = None /\ first_reg[key] = None
                        THEN [first_reg EXCEPT ![key] = processor] ELSE first_reg
        /\ reg' = [op |-> "register", key |-> key, processor |-> processor,
                   as_default |-> as_default, raised |-> r.raised, value |-> r.value]
        /\ UNCHANGED <<adapter_vars, query_vars, doc_vars>>

Unregister ==
    \E key \in Keys :
        LET r == unregister(processors, default, key) IN
        /\ processors' = r.processors
        /\ default' = r.default
        /\ first_reg' = IF r.raised = None THEN [first_reg EXCEPT ![key] = None]
                        ELSE first_reg
        /\ reg' = [op |-> "unregister", key |-> key, processor |-> None,
                   as_default |-> FALSE, raised |-> r.raised, value |-> r.value]
        /\ UNCHANGED <<adapter_vars, query_vars, doc_vars>>

GetProcessor ==
    \E key \in Keys :
        LET r == get_processor(processors, default, key) IN
        /\ reg' = [op |-> "get_processor", key |-> key, processor |-> None,
                   as_default |-> FALSE, raised |-> r.raised, value |-> r.value]
        /\ UNCHANGED <<processors, default, first_reg, adapter_vars, query_vars, doc_vars>>

-----------------------------------------------------------------------------
(* Converter registry (ConverterManager): keys are Python types            *)

\* the classes converters are asked about, each with its method resolution
\* order (Document up to its mixins)
mro == [c \in {"object", "basestring", "unicode", "int", "bool", "list",
               "OneToManyRelation"} \cup Documents |->
          CASE c = "object" -> <<"object">>
            [] c = "basestring" -> <<"basestring", "object">>
            [] c = "unicode" -> <<"unicode", "basestring", "object">>
            [] c = "int" -> <<"int", "object">>
            [] c = "bool" -> <<"bool", "int", "object">>
            [] c = "list" -> <<"list", "object">>
            [] c = "Document" -> <<"Document", "object">>
            [] c = "Note" -> <<"Note", "Document", "object">>
            [] c = "Contact" -> <<"Contact", "Note", "Document", "object">>
            [] c = "Author" -> <<"Author", "Document", "object">>
            [] c = "Book" -> <<"Book", "Document", "object">>
            [] c = "OneToManyRelation" -> <<"OneToManyRelation", "object">>]
Classes == DOMAIN mro

\* OneToManyRelation(document_class): descriptors, instances of the wrapper
Relations == {"Many(Note)", "Many(Contact)"}

\* datatypes given as a lazy import path
LazyPaths == {"notes.Note"}

\* issubclass(value, base): the metaclass of Document derives from
\* abc.ABCMeta, whose __subclasscheck__ looks for base in value.__mro__ and
\* answers False for an instance, which has none
issubclass(value, base) ==
    value \in Classes /\ \E i \in 1..Len(mro[value]) : mro[value][i] = base

\* _preprocess_key that keeps every key as it is
converter_preprocess_key_plain(value) == value

\* ConverterManager._preprocess_key
converter_preprocess_key(value) ==
    IF issubclass(value, "Document") THEN "Document"
    ELSE IF value \in Relations THEN "OneToManyRelation"
    ELSE value

\* ConverterManager.get_processor: ProcessorManager.get_processor over
\* ConverterManager._preprocess_key
converter_get_processor(procs, dflt, value) ==
    get_processor(procs, dflt, converter_preprocess_key(value))

\* ConverterManager._pick_processor(datatype)
pick_processor(procs, dflt, datatype) ==
    LET bases == IF datatype \in Classes THEN mro[datatype]
                 ELSE mro["OneToManyRelation"]
        missing == [raised |-> "DataProcessorDoesNotExist", value |-> None]
        try[i \in 1..(Len(bases) + 1)] ==
            IF i > Len(bases) THEN missing
            ELSE LET r == converter_get_processor(procs, dflt, datatype) IN
                 IF r.raised = "DataProcessorDoesNotExist" THEN try[i + 1]
                 ELSE IF r.raised = "TypeError" THEN missing
                 ELSE r
    IN try[1]

\* ConverterManager.from_db(datatype, value): the handler that decodes, or
\* "noop" for a datatype given as a string
FromDb ==
    \E datatype \in Classes \cup Relations \cup LazyPaths :
        LET r == IF datatype \in LazyPaths THEN [raised |-> None, value |-> "noop"]
                 ELSE pick_processor(processors, default, datatype) IN
        /\ reg' = [op |-> "from_db", key |-> datatype, processor |-> None,
                   as_default |-> FALSE, raised |-> r.raised, value |-> r.value]
        /\ UNCHANGED <<processors, default, first_reg, adapter_vars, query_vars, doc_vars>>

\* ConverterManager.to_db(value, storage) for a value whose type is datatype:
\* the handler that encodes
ToDb ==
    \E datatype \in Classes :
        LET r == pick_processor(processors, default, datatype) IN
        /\ reg' = [op |-> "to_db", key |-> datatype, processor |-> None,
                   as_default |-> FALSE, raised |-> r.raised, value |-> r.value]
        /\ UNCHANGED <<processors, default, first_reg, adapter_vars, query_vars, doc_vars>>

NextRegistry == Register \/ Unregister \/ GetProcessor

-----------------------------------------------------------------------------
(* Storage adapter (BaseStorageAdapter over the shelve StorageAdapter)     *)

\* the primary keys the uuid generator draws from, in the shelf's iteration order
KeyOrder == <<"k1", "k2">>
PKs == {KeyOrder[i] : i \in DOMAIN KeyOrder}
FieldNames == {"name", "age"}

\* the open shelf handle
Shelf == "shelf"

NoRet == [op |-> "init", key |-> None, raised |-> None, value |-> None]

\* a Python dict: field name -> value, over the fields it holds; tags is a list
SampleData == { [name |-> PyText("Ada"), tags |-> [t |-> "list", v |-> "tags", enc |-> 0]],
                [name |-> PyText("Bob"), age |-> PyInt("1")],
                [name |-> PyText("Ada"), age |-> PyInt("2")] }

Outcome(conn, recs, primitives, raised, value) ==
    [connection |-> conn, records |-> recs, calls |-> primitives,
     raised |-> raised, value |-> value]

\* BaseStorageAdapter._prepare_data_for_saving
prepare_data_for_saving(data) == [k \in DOMAIN data |-> value_to_db(data[k])]

\* StorageAdapter._save (shelve): key = str(key or self._generate_uid()).
\* uid = None stands for a backend whose _save writes nothing and returns no
\* key, which the shelve backend never does.
backend_save(recs, key, data, uid) ==
    LET k == IF key # None THEN key ELSE uid IN
    IF k = None THEN [records |-> recs, key |-> None]
    ELSE [records |-> [x \in DOMAIN recs \cup {k} |-> IF x = k THEN data ELSE recs[x]],
          key |-> k]

\* BaseStorageAdapter.connect
connect(conn, recs) ==
    IF conn # None THEN Outcome(conn, recs, << >>, "RuntimeError", None)
    ELSE Outcome(Shelf, recs, <<"_connect">>, None, None)

\* BaseStorageAdapter.disconnect
disconnect(conn, recs) ==
    IF conn = None THEN Outcome(conn, recs, << >>, "RuntimeError", None)
    ELSE Outcome(None, recs, <<"_disconnect">>, None, None)

\* reconnect as an idempotent connect
reconnect_idempotent(conn, recs) ==
    IF conn = None THEN connect(conn, recs) ELSE Outcome(conn, recs, << >>, None, None)

\* BaseStorageAdapter.reconnect: self.disconnect(); self.connect()
reconnect(conn, recs) ==
    LET d == disconnect(conn, recs) IN
    IF d.raised # None THEN d
    ELSE LET c == connect(d.connection, d.records) IN
         Outcome(c.connection, c.records, d.calls \o c.calls, c.raised, c.value)

\* BaseStorageAdapter.clear
clear(conn, recs) ==
    IF conn = None THEN Outcome(conn, recs, << >>, "RuntimeError", None)
    ELSE Outcome(conn, << >>, <<"_clear">>, None, None)

\* delete without the connection check
delete_unchecked(conn, recs, key) ==
    IF key \notin DOMAIN recs
    THEN Outcome(conn, recs, <<"_delete">>, "KeyError", None)
    ELSE Outcome(conn, [x \in DOMAIN recs \ {key} |-> recs[x]], <<"_delete">>, None, None)

\* BaseStorageAdapter.delete; StorageAdapter._delete is del self.connection[key]
delete(conn, recs, key) ==
    IF conn = None THEN Outcome(conn, recs, << >>, "RuntimeError", None)
    ELSE IF key \notin DOMAIN recs
         THEN Outcome(conn, recs, <<"_delete">>, "KeyError", None)
         ELSE Outcome(conn, [x \in DOMAIN recs \ {key} |-> recs[x]], <<"_delete">>,
                      None, None)

\* save that returns whatever the backend primitive returned
save_unasserted(conn, recs, key, data, uid) ==
    IF conn = None THEN Outcome(conn, recs, << >>, "RuntimeError", None)
    ELSE LET s == backend_save(recs, key, prepare_data_for_saving(data), uid) IN
         Outcome(conn, s.records, <<"_save">>, None, s.key)

\* BaseStorageAdapter.save
save(conn, recs, key, data, uid) ==
    IF conn = None THEN Outcome(conn, recs, << >>, "RuntimeError", None)
    ELSE LET outgoing == prepare_data_for_saving(data)
             s == backend_save(recs, key, outgoing, uid) IN
         IF ~Truthy(s.key)
         THEN Outcome(conn, s.records, <<"_save">>, "AssertionError", None)
         ELSE Outcome(conn, s.records, <<"_save">>, None, s.key)

\* BaseStorageAdapter.sync; the shelve adapter inherits the unsupported _sync
sync(conn, recs) ==
    IF conn = None THEN Outcome(conn, recs, << >>, "RuntimeError", None)
    ELSE Outcome(conn, recs, <<"_sync">>, "NotImplementedError", None)

\* BaseStorageAdapter.get with doc_class=dict: _decorate gives (key, dict(**data))
get(conn, recs, key) ==
    IF conn = None THEN Outcome(conn, recs, << >>, "RuntimeError", None)
    ELSE IF key \notin DOMAIN recs
         THEN Outcome(conn, recs, <<"_get">>, "KeyError", None)
         ELSE Outcome(conn, recs, <<"_get">>, None, <<key, recs[key]>>)

\* the result of consuming the generator of _get_many: the pairs fetched
\* before the first missing key, one _get per key tried, and the keys the
\* KeyError of _get names
RECURSIVE fetch_many(_, _)
fetch_many(recs, keys) ==
    IF keys = << >>
    THEN [raised |-> None, value |-> << >>, calls |-> << >>, named |-> << >>]
    ELSE IF Head(keys) \notin DOMAIN recs
         THEN [raised |-> "KeyError", value |-> << >>, calls |-> <<"_get">>,
               named |-> <<Head(keys)>>]
         ELSE LET rest == fetch_many(recs, Tail(keys)) IN
              [raised |-> rest.raised,
               value |-> << <<Head(keys), recs[Head(keys)]>> >> \o rest.value,
               calls |-> <<"_get">> \o rest.calls,
               named |-> rest.named]

\* BaseStorageAdapter.get_many, consumed to the end
get_many(conn, recs, keys) ==
    IF conn = None THEN Outcome(conn, recs, << >>, "RuntimeError", None)
    ELSE LET r == fetch_many(recs, keys) IN
         Outcome(conn, recs, r.calls, r.raised, [yielded |-> r.value, named |-> r.named])

\* positional arguments of the public methods: a primary key, a list of
\* primary keys, a data dictionary, None, or the class dict
KeyArg(key) == [kind |-> "basestring", v |-> key]
KeysArg(keys) == [kind |-> "list", v |-> keys]
DataArg(data) == [kind |-> "dict", v |-> data]
ClassArg == [kind |-> "type", v |-> "dict"]
NoneArg == [kind |-> "NoneType", v |-> None]

\* an outcome with the DeprecationWarning flag
Warned(r, warned) ==
    [connection |-> r.connection, records |-> r.records, calls |-> r.calls,
     raised |-> r.raised, value |-> r.value, warned |-> warned]

\* BaseStorageAdapter.get(key, doc_class) as called with two positional
\* arguments
get_args(conn, recs, key, doc_class) ==
    IF conn = None THEN Warned(get(conn, recs, None), FALSE)
    ELSE IF key.kind # "basestring"
         THEN Warned(get(conn, recs, doc_class.v), TRUE)
         ELSE Warned(get(conn, recs, key.v), FALSE)

\* BaseStorageAdapter.get_many(keys, doc_class) as called with two positional
\* arguments and consumed to the end. A list and a class both have __iter__;
\* keys[0] raises IndexError on an empty list and TypeError on a class
get_many_args(conn, recs, keys, doc_class) ==
    IF conn = None THEN Warned(get_many(conn, recs, << >>), FALSE)
    ELSE IF keys.kind \notin {"list", "type"}
         THEN Warned(get_many(conn, recs, doc_class.v), TRUE)
    ELSE IF keys.kind = "type"
         THEN Warned(Outcome(conn, recs, << >>, "TypeError", None), FALSE)
    ELSE IF keys.v = << >>
         THEN Warned(Outcome(conn, recs, << >>, "IndexError", None), FALSE)
    ELSE Warned(get_many(conn, recs, keys.v), FALSE)

\* BaseStorageAdapter.save(key, data) as called with two positional arguments
save_args(conn, recs, key, data, uid) ==
    IF conn = None THEN Warned(save(conn, recs, None, << >>, uid), FALSE)
    ELSE IF key.kind \notin {"NoneType", "basestring"}
         THEN Warned(save(conn, recs, data.v, key.v, uid), TRUE)
         ELSE Warned(save(conn, recs, key.v, data.v, uid), FALSE)

Apply(op, key, r) ==
    /\ connection' = r.connection
    /\ records' = r.records
    /\ calls' = r.calls
    /\ ret' = [op |-> op, key |-> key, raised |-> r.raised, value |-> r.value]
    /\ UNCHANGED <<other, registry_vars, doc_vars>>

\* keys the uuid generator can still draw (assert key not in self)
FreshKeys(recs) == PKs \ DOMAIN recs

\* a call with two positional arguments, in the documented order or in the
\* deprecated one
ApplyArgs(op, legacy, args, uid, r) ==
    /\ connection' = r.connection
    /\ records' = r.records
    /\ calls' = r.calls
    /\ ret' = [op |-> op, key |-> args, raised |-> r.raised, value |-> r.value,
               legacy |-> legacy, warned |-> r.warned, uid |-> uid]
    /\ UNCHANGED <<other, registry_vars, doc_vars, query_vars>>

\* db.get(key, dict) or db.get(dict, key)
GetArgs ==
    \E key \in PKs, legacy \in BOOLEAN :
        ApplyArgs("get", legacy, <<key>>, None,
                  IF legacy THEN get_args(connection, records, ClassArg, KeyArg(key))
                  ELSE get_args(connection, records, KeyArg(key), ClassArg))

\* list(db.get_many(keys, dict)) or list(db.get_many(dict, keys))
GetManyArgs ==
    \E keys \in {<<k>> : k \in PKs} \cup (PKs \X PKs), legacy \in BOOLEAN :
        ApplyArgs("get_many", legacy, keys, None,
                  IF legacy
                  THEN get_many_args(connection, records, ClassArg, KeysArg(keys))
                  ELSE get_many_args(connection, records, KeysArg(keys), ClassArg))

\* db.save(key, data) or db.save(data, key)
SaveArgs ==
    \E key \in PKs \cup {None}, data \in SampleData,
       uid \in IF FreshKeys(records) = {} THEN {None} ELSE FreshKeys(records),
       legacy \in BOOLEAN :
        LET k == IF key = None THEN NoneArg ELSE KeyArg(key)
            r == IF legacy THEN save_args(connection, records, DataArg(data), k, uid)
                 ELSE save_args(connection, records, k, DataArg(data), uid)
        IN /\ r.raised # "AssertionError"
           /\ ApplyArgs("save", legacy, <<key, data>>, uid, r)

Connect == Apply("connect", None, connect(connection, records))
Disconnect == Apply("disconnect", None, disconnect(connection, records))
Reconnect == Apply("reconnect", None, reconnect(connection, records))
Clear == Apply("clear", None, clear(connection, records))
Delete == \E key \in PKs : Apply("delete", key, delete(connection, records, key))
Sync == Apply("sync", None, sync(connection, records))
Get == \E key \in PKs : Apply("get", key, get(connection, records, key))
GetMany == \E k1 \in PKs, k2 \in PKs :
               Apply("get_many", <<k1, k2>>, get_many(connection, records, <<k1, k2>>))
SaveOf(keys) ==
    \E key \in keys, data \in SampleData :
        \/ /\ key = None
           /\ connection # None
           /\ \E uid \in FreshKeys(records) :
                  Apply("save", key, save(connection, records, key, data, uid))
        \/ /\ key # None \/ connection = None
           /\ Apply("save", key, save(connection, records, key, data, None))
Save == SaveOf(PKs \cup {None})


-----------------------------------------------------------------------------
(* Query adapter (shelve QueryAdapter over CachedIterator)                 *)

\* the most Query instances created in one behaviour
MaxQueries == 2
\* CachedIterator._chunk_size: items fetched by one _fill_cache
ChunkSize == 2
\* the longest result cache an iteration is started on
MaxCache == 2
\* the most backend searches a Query has run when an iteration is started on it
MaxSearches == 1

\* the lookup registry the shelve backend populates when it is loaded
ShelveLookups == [k \in {"equals", "gt"} |->
                     IF k = "equals" THEN "exact_match" ELSE "greater_than"]

\* the sort rank of a payload
PayloadRank(v) ==
    CASE v = "None" -> 0 [] v = "" -> 1 [] v = "1" -> 2 [] v = "2" -> 3
      [] v = "Ada" -> 4 [] v = "Bob" -> 5 [] OTHER -> 6

\* data.get(name)
dict_get(data, name) == IF name \in DOMAIN data THEN data[name] ELSE PyNone

\* a native condition of the shelve backend: a check on a raw record, built
\* by the lookup processor from the name, the converted value and negate
native_condition(processor, name, value, negate) ==
    [processor |-> processor, name |-> name, value |-> value_to_db(value),
     negate |-> negate]

check(cond, data) ==
    LET v == dict_get(data, cond.name)
        holds == IF cond.processor = "exact_match" THEN v = cond.value
                 ELSE v # PyNone /\ PayloadRank(v.v) > PayloadRank(cond.value.v)
    IN IF cond.negate THEN ~holds ELSE holds

matches(q, data) == \A i \in DOMAIN q.conditions : check(q.conditions[i], data)

\* the keys of the shelf, as iterating the connection yields them
shelf_keys(recs) == SelectSeq(KeyOrder, LAMBDA k : k \in DOMAIN recs)

\* QueryAdapter._do_search.make_sort_key
make_sort_key(q, data) ==
    LET present == SelectSeq(q.ordering.names,
                             LAMBDA n : dict_get(data, n) # PyNone)
    IN [i \in DOMAIN present |-> PayloadRank(data[present[i]].v)]

\* Python's order on two lists of ranks
RECURSIVE list_less(_, _)
list_less(a, b) ==
    IF b = << >> THEN FALSE
    ELSE IF a = << >> THEN TRUE
    ELSE IF Head(a) # Head(b) THEN Head(a) < Head(b)
    ELSE list_less(Tail(a), Tail(b))

\* LazySorted: a stable sort of the keys by make_sort_key, reversed on demand
RECURSIVE insert_sorted(_, _, _, _)
insert_sorted(q, recs, sorted, k) ==
    IF sorted = << >> THEN <<k>>
    ELSE LET before == IF q.ordering.reverse
                       THEN list_less(make_sort_key(q, recs[Head(sorted)]),
                                      make_sort_key(q, recs[k]))
                       ELSE list_less(make_sort_key(q, recs[k]),
                                      make_sort_key(q, recs[Head(sorted)]))
         IN IF before THEN <<k>> \o sorted
            ELSE <<Head(sorted)>> \o insert_sorted(q, recs, Tail(sorted), k)

RECURSIVE lazy_sorted(_, _, _)
lazy_sorted(q, recs, keys) ==
    IF keys = << >> THEN << >>
    ELSE insert_sorted(q, recs,
                       lazy_sorted(q, recs, SubSeq(keys, 1, Len(keys) - 1)),
                       keys[Len(keys)])

\* _iter is None; _ordering is {} (nothing to sort by)
NoIter == [live |-> FALSE, started |-> FALSE, todo |-> << >>]
NoOrdering == [names |-> << >>, reverse |-> FALSE]

\* QueryAdapter._do_search: a generator that has not run yet
do_search(q) == [live |-> TRUE, started |-> FALSE, todo |-> << >>]

\* the first next() of the generator: finder() snapshots the keys of the shelf;
\* with an ordering the whole finder is consumed and sorted
start_search(q, recs) ==
    IF q.ordering = NoOrdering
    THEN [live |-> TRUE, started |-> TRUE, todo |-> shelf_keys(recs)]
    ELSE [live |-> TRUE, started |-> TRUE,
          todo |-> lazy_sorted(q, recs,
                       SelectSeq(shelf_keys(recs), LAMBDA k : matches(q, recs[k])))]

\* next() of the generator: the next matching key, StopIteration, or the
\* KeyError of self.storage.connection[pk] for a key deleted meanwhile
RECURSIVE generator_next(_, _, _)
generator_next(q, recs, it) ==
    IF ~it.started THEN generator_next(q, recs, start_search(q, recs))
    ELSE IF it.todo = << >> THEN [iter |-> it, out |-> "StopIteration"]
    ELSE IF q.ordering # NoOrdering
         THEN [iter |-> [it EXCEPT !.todo = Tail(@)], out |-> Head(it.todo)]
    ELSE IF Head(it.todo) \notin DOMAIN recs
         THEN [iter |-> [it EXCEPT !.todo = << >>], out |-> "KeyError"]
    ELSE IF matches(q, recs[Head(it.todo)])
         THEN [iter |-> [it EXCEPT !.todo = Tail(@)], out |-> Head(it.todo)]
    ELSE generator_next(q, recs, [it EXCEPT !.todo = Tail(@)])

\* QueryAdapter._prepare_item: self.storage.get(key, self.doc_class)
prepare_item(conn, recs, key) == get(conn, recs, key)

\* CachedIterator._fill_cache: up to num items are appended to the cache;
\* StopIteration sets _iter to None, any other error propagates
RECURSIVE fill_cache(_, _, _, _)
fill_cache(q, conn, recs, num) ==
    IF num = 0 \/ ~q.iter.live THEN [query |-> q, raised |-> None]
    ELSE LET n == generator_next(q, recs, q.iter)
             \* the search runs when its generator is advanced for the first time
             q1 == [q EXCEPT !.iter = n.iter,
                             !.searches = IF q.iter.started THEN @ ELSE @ + 1]
         IN
         IF n.out = "StopIteration" THEN [query |-> [q1 EXCEPT !.iter = NoIter], raised |-> None]
         ELSE IF n.out = "KeyError" THEN [query |-> q1, raised |-> "KeyError"]
         ELSE LET item == prepare_item(conn, recs, n.out) IN
              IF item.raised # None THEN [query |-> q1, raised |-> item.raised]
              ELSE fill_cache([q1 EXCEPT !.cache = Append(@, item.value)],
                              conn, recs, num - 1)

\* QueryAdapter._prepare (shelve)
prepare(q) ==
    IF ~q.iter.live
    THEN [q EXCEPT !.iter = do_search(q)]
    ELSE q

\* CachedIterator.__iter__ after _prepare, read by a consumer that takes
\* `want` items (-1: reads to the end)
RECURSIVE result_iter(_, _, _, _, _, _)
result_iter(q, conn, recs, pos, want, yielded) ==
    IF want = 0 THEN [query |-> q, raised |-> None, value |-> yielded, ended |-> FALSE]
    ELSE IF pos < Len(q.cache)
         THEN result_iter(q, conn, recs, pos + 1, IF want > 0 THEN want - 1 ELSE want,
                          Append(yielded, q.cache[pos + 1]))
    ELSE IF ~q.iter.live
         THEN [query |-> q, raised |-> None, value |-> yielded, ended |-> TRUE]
    ELSE LET f == fill_cache(q, conn, recs, ChunkSize) IN
         IF f.raised # None
         THEN [query |-> f.query, raised |-> f.raised, value |-> yielded, ended |-> TRUE]
         ELSE result_iter(f.query, conn, recs, pos, want, yielded)

\* iter(query), consumed for `want` items
iterate(q, conn, recs, want) == result_iter(prepare(q), conn, recs, 0, want, << >>)

\* CachedIterator.__init__ followed by QueryAdapter._init
new_query(conditions, ordering) ==
    LET q == [conditions |-> conditions, ordering |-> ordering, iter |-> NoIter,
              cache |-> << >>, searches |-> 0, first_full |-> << >>]
    IN [q EXCEPT !.iter = do_search(q)]

\* _clone that keeps the new conditions only
clone_anew(q, extra_conditions, extra_ordering) ==
    new_query(extra_conditions,
              IF extra_ordering # NoOrdering THEN extra_ordering ELSE q.ordering)

\* QueryAdapter._clone
clone(q, extra_conditions, extra_ordering) ==
    new_query(q.conditions \o extra_conditions,
              IF extra_ordering # NoOrdering THEN extra_ordering ELSE q.ordering)

\* BaseQueryAdapter._get_native_conditions for one lookup
get_native_conditions(lookup, value, negate) ==
    LET p == get_processor(processors, default, lookup.operation) IN
    IF p.raised # None THEN [raised |-> p.raised, value |-> << >>]
    ELSE [raised |-> None,
          value |-> <<native_condition(p.value, lookup.name, value, negate)>>]

\* QueryAdapter.__where
where_impl(q, lookup, value, negate) ==
    LET c == get_native_conditions(lookup, value, negate) IN
    IF c.raised # None THEN [raised |-> c.raised, value |-> None]
    ELSE [raised |-> None, value |-> clone(q, c.value, NoOrdering)]

\* QueryAdapter._where
where(q, lookup, value) == where_impl(q, lookup, value, FALSE)

\* QueryAdapter._where(**conditions) with several conditions, in the order
\* the dictionary yields them; natives are the conditions collected so far
RECURSIVE where_all(_, _, _)
where_all(q, lookups, natives) ==
    IF lookups = << >> THEN [raised |-> None, value |-> clone(q, natives, NoOrdering)]
    ELSE LET c == get_native_conditions(Head(lookups), Head(lookups).value, FALSE) IN
         IF c.raised # None THEN [raised |-> c.raised, value |-> None]
         ELSE where_all(q, Tail(lookups), natives \o c.value)

\* QueryAdapter._where_not: self._where(conditions, negate=True) passes a
\* positional argument to a keywords-only method
where_not(q, lookup, value) == [raised |-> "TypeError", value |-> None]

\* QueryAdapter.order_by: names = list(reversed(names))
order_by(q, names, reverse) ==
    [raised |-> None,
     value |-> clone(q, << >>, [names |-> [i \in DOMAIN names |->
                                              names[Len(names) + 1 - i]],
                                reverse |-> reverse])]

\* _delete that stops after the first record found
query_delete_first(q, conn, recs, it, done) ==
    LET n == generator_next(q, recs, it) IN
    IF n.out \in {"StopIteration", "KeyError"}
    THEN [records |-> recs, raised |-> None, value |-> done]
    ELSE [records |-> delete(conn, recs, n.out).records, raised |-> None,
          value |-> <<n.out>>]

\* QueryAdapter._delete: for pk in self._do_search(): self.storage.delete(pk);
\* `it` is the generator of the new search, `done` the keys deleted so far
RECURSIVE query_delete(_, _, _, _, _)
query_delete(q, conn, recs, it, done) ==
    LET n == generator_next(q, recs, it) IN
    IF n.out = "StopIteration" THEN [records |-> recs, raised |-> None, value |-> done]
    ELSE IF n.out = "KeyError"
         THEN [records |-> recs, raised |-> "KeyError", value |-> done]
    ELSE LET d == delete(conn, recs, n.out) IN
         IF d.raised # None THEN [records |-> recs, raised |-> d.raised, value |-> done]
         ELSE query_delete(q, conn, d.records, n.iter, Append(done, n.out))

\* the loop of values that yields every value it meets
known_values_repeated(items, name, known) ==
    [i \in DOMAIN items |-> dict_get(items[i][2], name)]

\* the loop of QueryAdapter.values over the documents iterated: a value that
\* is None (or missing) or unhashable (a list) is skipped, a value in
\* known_values is not yielded again
RECURSIVE known_values(_, _, _)
known_values(items, name, known) ==
    IF items = << >> THEN known
    ELSE LET value == dict_get(Head(items)[2], name) IN
         IF \/ value = PyNone
            \/ value.t = "list"
            \/ \E i \in DOMAIN known : known[i] = value
         THEN known_values(Tail(items), name, known)
         ELSE known_values(Tail(items), name, Append(known, value))

\* QueryAdapter.values(name), consumed to the end
values(q, conn, recs, name) ==
    [iterate(q, conn, recs, -1) EXCEPT !.value = known_values(@, name, << >>)]

\* BaseStorageAdapter.find with no conditions and doc_class=dict
find(conn) ==
    IF conn = None THEN [raised |-> "RuntimeError", value |-> None]
    ELSE [raised |-> None, value |-> new_query(<< >>, NoOrdering)]

NoArg == [name |-> None, operation |-> None, value |-> PyNone, names |-> << >>,
          reverse |-> FALSE, want |-> 0]
NoQRet == [op |-> "init", q |-> 0, arg |-> NoArg, raised |-> None, value |-> << >>,
           new |-> 0, ended |-> FALSE]

\* the lookups and values offered to where and where_not
Lookups == { [name |-> "name", operation |-> None, value |-> PyText("Ada")],
             [name |-> "age", operation |-> "gt", value |-> PyInt("1")],
             [name |-> "age", operation |-> "lt", value |-> PyInt("1")] }
OrderNames == { <<"name">>, <<"age", "name">> }

LookupArg(lookup) == [NoArg EXCEPT !.name = lookup.name,
                                   !.operation = lookup.operation,
                                   !.value = lookup.value]

\* a refinement of queries[q] ends in a new Query instance or in an error
Refine(op, q, arg, r) ==
    /\ queries' = IF r.raised = None THEN Append(queries, r.value) ELSE queries
    /\ qret' = [op |-> op, q |-> q, arg |-> arg, raised |-> r.raised, value |-> << >>,
                new |-> IF r.raised = None THEN Len(queries) + 1 ELSE 0,
                ended |-> FALSE]

Find ==
    /\ Len(queries) < MaxQueries
    /\ Refine("find", 0, NoArg, find(connection))
    /\ calls' = << >>
    /\ ret' = [op |-> "find", key |-> None,
               raised |-> find(connection).raised, value |-> None]
    /\ UNCHANGED <<connection, records, other, registry_vars, doc_vars>>

Where ==
    /\ Len(queries) < MaxQueries
    /\ \E q \in DOMAIN queries, lookup \in Lookups :
           Refine("where", q, LookupArg(lookup), where(queries[q], lookup, lookup.value))
    /\ UNCHANGED <<adapter_vars, registry_vars, doc_vars>>

\* queries[q].where(**{l1, l2}) with two distinct keywords
WhereAll ==
    /\ Len(queries) < MaxQueries
    /\ \E q \in DOMAIN queries, l1 \in Lookups, l2 \in Lookups :
           /\ <<l1.name, l1.operation>> # <<l2.name, l2.operation>>
           /\ Refine("where_all", q, LookupArg(l1),
                     where_all(queries[q], <<l1, l2>>, << >>))
    /\ UNCHANGED <<adapter_vars, registry_vars, doc_vars>>

WhereNot ==
    /\ Len(queries) < MaxQueries
    /\ \E q \in DOMAIN queries, lookup \in Lookups :
           Refine("where_not", q, LookupArg(lookup), where_not(queries[q], lookup, lookup.value))
    /\ UNCHANGED <<adapter_vars, registry_vars, doc_vars>>

OrderBy ==
    /\ Len(queries) < MaxQueries
    /\ \E q \in DOMAIN queries, names \in OrderNames, reverse \in BOOLEAN :
           Refine("order_by", q, [NoArg EXCEPT !.names = names, !.reverse = reverse],
                  order_by(queries[q], names, reverse))
    /\ UNCHANGED <<adapter_vars, registry_vars, doc_vars>>

\* for x in queries[q], the consumer stopping after `want` items
Iterate ==
    /\ \E q \in DOMAIN queries, want \in {-1, 0, 1} :
           /\ Len(queries[q].cache) <= MaxCache
           /\ queries[q].searches <= MaxSearches
           /\ LET r == iterate(queries[q], connection, records, want)
                  full == r.raised = None /\ r.ended
              IN /\ queries' = [queries EXCEPT ![q] =
                        [r.query EXCEPT !.first_full =
                            IF full /\ @ = << >> THEN <<r.value>> ELSE @]]
                 /\ qret' = [op |-> "iter", q |-> q, arg |-> [NoArg EXCEPT !.want = want],
                             raised |-> r.raised, value |-> r.value, new |-> 0,
                             ended |-> r.ended]
    /\ UNCHANGED <<adapter_vars, registry_vars, doc_vars>>

\* queries[q].delete()
QDelete ==
    /\ \E q \in DOMAIN queries :
           LET r == query_delete(queries[q], connection, records,
                                 do_search(queries[q]), << >>) IN
           /\ records' = r.records
           /\ calls' = [i \in DOMAIN r.value |-> "_delete"]
           /\ qret' = [op |-> "delete", q |-> q, arg |-> NoArg, raised |-> r.raised,
                       value |-> r.value, new |-> 0, ended |-> FALSE]
    /\ UNCHANGED <<connection, ret, other, queries, registry_vars, doc_vars>>

\* list(queries[q].values(name))
QValues ==
    /\ \E q \in DOMAIN queries, name \in {"name", "tags"} :
           /\ Len(queries[q].cache) <= MaxCache
           /\ queries[q].searches <= MaxSearches
           /\ LET r == values(queries[q], connection, records, name)
                  full == r.raised = None /\ r.ended
              IN /\ queries' = [queries EXCEPT ![q] =
                        [r.query EXCEPT !.first_full =
                            IF full /\ @ = << >>
                            THEN <<r.query.cache>>
                            ELSE @]]
                 /\ qret' = [op |-> "values", q |-> q,
                             arg |-> [NoArg EXCEPT !.name = name],
                             raised |-> r.raised, value |-> r.value, new |-> 0,
                             ended |-> r.ended]
    /\ UNCHANGED <<adapter_vars, registry_vars, doc_vars>>

-----------------------------------------------------------------------------
(* Document entity (doqu/document_base.py)                                 *)

\* the most Document instances the application holds
MaxDocs == 1

\* Document.meta.structure
structure == [f \in FieldNames |-> IF f = "name" THEN "unicode" ELSE "int"]

\* the value meta.defaults gives the field "name" in the classes that have one
DefaultName == PyText("Anon")

\* the document classes: "name" is required or not, has a default or not, is
\* exempt from type conversion or not
PlainMeta == [required |-> FALSE, with_default |-> FALSE, skip_type_conversion |-> {},
              break_on_invalid_incoming_data |-> FALSE]
Metas == { [PlainMeta EXCEPT !.required = TRUE],
           [PlainMeta EXCEPT !.required = TRUE, !.with_default = TRUE],
           [PlainMeta EXCEPT !.with_default = TRUE],
           [PlainMeta EXCEPT !.skip_type_conversion = {"name"}] }

\* meta.defaults
defaults(m) == IF m.with_default THEN [f \in {"name"} |-> DefaultName] ELSE << >>

\* value is None or value == ''
is_empty(value) == value = PyNone \/ (value.t = "unicode" /\ value.v = "")

\* validators.required: raises ValidationError for an empty value
required(value) == ~is_empty(value)

\* _validate_value_type that lets every value pass
check_type_lenient(datatype, value) == TRUE

\* _validate_value_type after datatype = cls.meta.structure.get(key): TRUE
\* when no ValidationError is raised. Of the Python 2 values, lists and
\* documents (dictionaries) have __iter__, strings and numbers have not
check_type(datatype, value) ==
    IF value = PyNone THEN TRUE
    ELSE IF datatype = None THEN TRUE
    ELSE IF datatype \in LazyPaths THEN TRUE
    ELSE IF issubclass(datatype, "Document") /\ issubclass(value.t, "basestring")
         THEN TRUE
    ELSE IF datatype \in Relations
         THEN value.t = "list" \/ issubclass(value.t, "Document")
    ELSE issubclass(value.t, datatype)

\* _validate_value_type: TRUE when no ValidationError is raised
validate_value_type(key, value) ==
    check_type(IF key \in DOMAIN structure THEN structure[key] ELSE None, value)

\* _validate_value_custom over meta.validators
validate_value_custom(m, key, value) ==
    (m.required /\ key = "name") => required(value)

\* _validate_value
validate_value(m, key, value) ==
    validate_value_type(key, value) /\ validate_value_custom(m, key, value)

\* DocumentSavedState.__init__; data None is the empty mapping here
NoState == [storage |-> None, key |-> None, data |-> << >>]

\* DocumentSavedState.update: empty values are ignored
saved_state_update(state, storage, key, data) ==
    [storage |-> IF storage # None THEN storage ELSE state.storage,
     key |-> IF key # None THEN key ELSE state.key,
     data |-> data]

\* BaseStorageAdapter.__nonzero__, the truth value of a storage reference:
\* None is false, an adapter is true while it is connected
storage_nonzero(storage, conn) ==
    storage = "other" \/ (storage = "shelf" /\ conn # None)

\* DocumentSavedState.__eq__; `that` is true when its storage or its key is
\* (__nonzero__); conn is the connection of the first adapter
saved_state_eq(self, that, conn) ==
    IF /\ storage_nonzero(self.storage, conn) /\ self.key # None
       /\ (storage_nonzero(that.storage, conn) \/ that.key # None)
    THEN self.storage = that.storage /\ self.key = that.key
    ELSE FALSE

\* DocumentSavedState.__hash__: hash(storage) | hash(key), a symmetric
\* combination of the two hashes, kept as the set of the two
saved_state_hash(self, conn) ==
    IF ~storage_nonzero(self.storage, conn) \/ self.key = None
    THEN [raised |-> "TypeError", value |-> {}]
    ELSE [raised |-> None, value |-> {self.storage, self.key}]

\* Document.__setitem__
setitem(m, data, key, value) ==
    IF key \notin DOMAIN structure THEN [raised |-> "KeyError", data |-> data]
    ELSE IF ~validate_value(m, key, value)
         THEN [raised |-> "ValidationError", data |-> data]
         ELSE [raised |-> None, data |-> [data EXCEPT ![key] = value]]

\* Document.__getitem__ of a field that is no reference: self._data[key]
getitem(data, key) ==
    IF key \notin DOMAIN data THEN [raised |-> "KeyError", value |-> PyNone]
    ELSE [raised |-> None, value |-> data[key]]

\* Document.__setattr__: a name of the structure goes through __setitem__,
\* any other name goes to DotDict.__setattr__, which "doesn't call *our*
\* __setitem__": it raises nothing and either keeps the value in the mapping
\* (stored) or as a plain attribute
setattr(m, data, name, value, stored) ==
    IF name \in DOMAIN structure THEN setitem(m, data, name, value)
    ELSE [raised |-> None,
          data |-> IF stored
                   THEN [f \in DOMAIN data \cup {name} |->
                            IF f = name THEN value ELSE data[f]]
                   ELSE data]

EmptyData == [f \in FieldNames |-> PyNone]
NoDoc == [data |-> EmptyData, saved |-> NoState]

\* Document.__init__(**kw): a KeyError propagates; a ValidationError of a
\* keyword propagates when break_on_invalid_incoming_data is on, else it is
\* logged and the field stays None
init(m, kw) ==
    IF \E k \in DOMAIN kw : k \notin DOMAIN structure
    THEN [raised |-> "KeyError", doc |-> NoDoc]
    ELSE IF /\ m.break_on_invalid_incoming_data
            /\ \E k \in DOMAIN kw : ~validate_value(m, k, kw[k])
    THEN [raised |-> "ValidationError", doc |-> NoDoc]
    ELSE [raised |-> None,
          doc |-> [data |-> [f \in FieldNames |->
                               IF f \in DOMAIN kw /\ validate_value(m, f, kw[f])
                               THEN kw[f] ELSE PyNone],
                   saved |-> NoState]]

\* _collect_defaults that yields the default of every field that has one
collect_defaults_always(m, data) ==
    [f \in DOMAIN defaults(m) |-> defaults(m)[f]]

\* _collect_defaults: the defaults of the fields whose value is None or ''
collect_defaults(m, data) ==
    [f \in {n \in DOMAIN defaults(m) : is_empty(dict_get(data, n))} |-> defaults(m)[f]]

\* the loop of Document.save that fills the defaults in through __setitem__
fill_defaults(m, data) ==
    LET pairs == collect_defaults(m, data)
        bad == \E f \in DOMAIN pairs : setitem(m, data, f, pairs[f]).raised # None
    IN [raised |-> IF bad THEN "ValidationError" ELSE None,
        data |-> [f \in DOMAIN data |->
                    IF f \in DOMAIN pairs /\ setitem(m, data, f, pairs[f]).raised = None
                    THEN pairs[f] ELSE data[f]]]

\* Document.validate: TRUE when no ValidationError is raised
validate(m, data) == \A f \in DOMAIN data : validate_value(m, f, data[f])

\* the record Document.save hands to storage.save: a copy of the saved
\* record updated with the converted value of every field of the structure
outgoing_data(m, doc) ==
    [f \in DOMAIN doc.saved.data \cup DOMAIN structure |->
        IF f \in DOMAIN structure
        THEN IF f \in m.skip_type_conversion THEN doc.data[f]
             ELSE value_to_db(doc.data[f])
        ELSE doc.saved.data[f]]

DocOutcome(doc, conn, recs, primitives, raised, value) ==
    [doc |-> doc, connection |-> conn, records |-> recs, calls |-> primitives,
     raised |-> raised, value |-> value, created |-> FALSE]

\* the key of Document.save that is kept in every case
primary_key_kept(doc, target, keep_key) == doc.saved.key

\* the key Document.save hands to storage.save: the primary key must not be
\* preserved if saving to another storage (unless explicitly told so)
primary_key(doc, target, keep_key) ==
    IF keep_key \/ target = doc.saved.storage THEN doc.saved.key ELSE None

\* Document.save that binds the instance to the storage it was given before
\* the record is saved
document_save_bound_early(m, doc, storage, keep_key, conn, recs, uid) ==
    IF storage = None /\ doc.saved.storage = None
    THEN DocOutcome(doc, conn, recs, << >>, "AttributeError", None)
    ELSE LET target == IF storage # None THEN storage ELSE doc.saved.storage
             filled == fill_defaults(m, doc.data)
             d1 == [doc EXCEPT !.data = filled.data, !.saved.storage = target]
         IN IF filled.raised # None \/ ~validate(m, d1.data)
            THEN DocOutcome(d1, conn, recs, << >>, "ValidationError", None)
            ELSE LET data == outgoing_data(m, d1)
                     s == save(conn, recs, primary_key(doc, target, keep_key), data, uid)
                 IN IF s.raised # None
                    THEN DocOutcome(d1, conn, recs, s.calls, s.raised, None)
                    ELSE DocOutcome([d1 EXCEPT !.saved =
                                        saved_state_update(@, target, s.value, data)],
                                    s.connection, s.records, s.calls, None, s.value)

\* Document.save(storage, keep_key)
document_save(m, doc, storage, keep_key, conn, recs, uid) ==
    IF storage = None /\ doc.saved.storage = None
    THEN DocOutcome(doc, conn, recs, << >>, "AttributeError", None)
    ELSE LET target == IF storage # None THEN storage ELSE doc.saved.storage
             filled == fill_defaults(m, doc.data)
             d1 == [doc EXCEPT !.data = filled.data]
         IN IF filled.raised # None \/ ~validate(m, d1.data)
            THEN DocOutcome(d1, conn, recs, << >>, "ValidationError", None)
            ELSE LET data == outgoing_data(m, d1)
                     s == save(conn, recs, primary_key(doc, target, keep_key), data, uid)
                 IN IF s.raised # None
                    THEN DocOutcome(d1, conn, recs, s.calls, s.raised, None)
                    ELSE DocOutcome([d1 EXCEPT !.saved =
                                        saved_state_update(@, target, s.value, data)],
                                    s.connection, s.records, s.calls, None, s.value)

\* Document.delete that forgets the storage and the key of the deleted record
document_delete_reset(doc, conn, recs) ==
    IF doc.saved.storage = None \/ doc.saved.key = None
    THEN DocOutcome(doc, conn, recs, << >>, "ValueError", None)
    ELSE LET r == delete(conn, recs, doc.saved.key) IN
         DocOutcome(IF r.raised = None THEN [doc EXCEPT !.saved = NoState] ELSE doc,
                    r.connection, r.records, r.calls, r.raised, None)

\* Document.delete that hands any key to the storage
document_delete_unbound(doc, conn, recs) ==
    LET r == delete(conn, recs, doc.saved.key) IN
    DocOutcome(doc, r.connection, r.records, r.calls, r.raised, None)

\* Document.delete
document_delete(doc, conn, recs) ==
    IF doc.saved.storage = None \/ doc.saved.key = None
    THEN DocOutcome(doc, conn, recs, << >>, "ValueError", None)
    ELSE LET r == delete(conn, recs, doc.saved.key) IN
         DocOutcome(doc, r.connection, r.records, r.calls, r.raised, None)

\* the loop of Document.from_storage: a value that cannot be converted is
\* logged and left as it came from the storage
pythonized_data(m, data) ==
    [f \in DOMAIN structure |->
        LET value == dict_get(data, f) IN
        IF f \in m.skip_type_conversion THEN value
        ELSE IF value_from_db(structure[f], value) = ValueError THEN value
        ELSE value_from_db(structure[f], value)]

\* the error Document.from_storage(storage, key, data) raises, None when it
\* returns an instance
from_storage_raised(m, data) ==
    IF /\ m.break_on_invalid_incoming_data
       /\ \E f \in DOMAIN structure \ m.skip_type_conversion :
              value_from_db(structure[f], dict_get(data, f)) = ValueError
    THEN "ValueError"
    ELSE init(m, pythonized_data(m, data)).raised

\* Document.from_storage(storage, key, data): the instance it returns
from_storage(m, storage, key, data) ==
    [data |-> init(m, pythonized_data(m, data)).doc.data,
     saved |-> saved_state_update(NoState, storage, key, data)]

\* BaseStorageAdapter._decorate with a document class
decorate(m, key, data) == from_storage(m, Shelf, key, data)

\* BaseStorageAdapter.get(key, doc_class) with a document class
get_document(m, conn, recs, key) ==
    LET r == get(conn, recs, key) IN
    IF r.raised # None THEN DocOutcome(NoDoc, conn, recs, r.calls, r.raised, None)
    ELSE DocOutcome(decorate(m, r.value[1], r.value[2]), conn, recs, r.calls, None, key)

\* QueryAdapter.count: len(list(self._do_search()))
count(q, recs) == Len(SelectSeq(shelf_keys(recs), LAMBDA k : matches(q, recs[k])))

\* BaseStorageAdapter.get_or_create(doc_class, **conditions) with one condition
get_or_create(m, conn, recs, lookup, uid) ==
    IF conn = None THEN DocOutcome(NoDoc, conn, recs, << >>, "RuntimeError", None)
    ELSE LET query == where(find(conn).value, lookup, lookup.value) IN
         IF query.raised # None
         THEN DocOutcome(NoDoc, conn, recs, << >>, query.raised, None)
         ELSE IF count(query.value, recs) > 0
         THEN LET first == iterate(query.value, conn, recs, 1).value[1] IN
              \* query[0]: _prepare_item calls storage.get twice
              DocOutcome(decorate(m, first[1], first[2]), conn, recs,
                         <<"_get", "_get">>, None, first[1])
         ELSE LET obj == init(m, [f \in {lookup.name} |-> lookup.value]) IN
              IF obj.raised # None
              THEN DocOutcome(NoDoc, conn, recs, << >>, obj.raised, None)
              ELSE LET s == document_save(m, obj.doc, Shelf, FALSE, conn, recs, uid)
                   IN [s EXCEPT !.created = s.raised = None]

NoLookup == [name |-> None, operation |-> None, value |-> PyNone]
NoDRet == [op |-> "init", d |-> 0, key |-> None, lookup |-> NoLookup, raised |-> None,
           value |-> None, created |-> FALSE, doc |-> NoDoc, keep_key |-> FALSE]

\* the keyword arguments and values the application passes
Kwargs == { << >>,
            [f \in {"name"} |-> PyText("Ada")],
            [f \in {"nick"} |-> PyText("Ada")] }
Values == { PyNone, PyText(""), PyText("Ada") }
Conditions == { [name |-> "name", operation |-> None, value |-> PyText("Ada")],
                [name |-> "age", operation |-> None, value |-> PyInt("1")],
                [name |-> "age", operation |-> None, value |-> PyText("Ada")] }

\* the values of a document are encoded at most MaxEnc times by one save
Encodable(doc) ==
    /\ \A f \in DOMAIN doc.data : doc.data[f].enc + 2 <= MaxEnc
    /\ \A f \in DOMAIN doc.saved.data \ DOMAIN structure :
           doc.saved.data[f].enc + 1 <= MaxEnc

DocApply(op, d, key, lookup, r) ==
    /\ connection' = r.connection
    /\ records' = r.records
    /\ calls' = r.calls
    /\ dret' = [op |-> op, d |-> d, key |-> key, lookup |-> lookup,
                raised |-> r.raised, value |-> r.value, created |-> r.created,
                doc |-> r.doc, keep_key |-> FALSE]
    /\ UNCHANGED <<ret, other, meta, classes, registry_vars, query_vars>>

\* the variables a new instance can be bound to: a held one or the next one
Slots == {d \in 1..MaxDocs : d <= Len(docs) + 1}

\* docs[d] = doc
bind(d, doc) == [i \in DOMAIN docs \cup {d} |-> IF i = d THEN doc ELSE docs[i]]

\* doc = Document(**kw)
New ==
    \E d \in Slots, kw \in Kwargs :
        LET r == init(meta, kw) IN
        /\ docs' = IF r.raised = None THEN bind(d, r.doc) ELSE docs
        /\ DocApply("new", d, None, NoLookup,
                    DocOutcome(r.doc, connection, records, << >>, r.raised, None))

\* doc[key] = value
SetItem ==
    \E d \in DOMAIN docs, key \in FieldNames \cup {"nick"}, value \in Values :
        LET r == setitem(meta, docs[d].data, key, value) IN
        /\ docs' = [docs EXCEPT ![d].data = r.data]
        /\ DocApply("setitem", d, key, [NoLookup EXCEPT !.value = value],
                    DocOutcome(docs'[d], connection, records, << >>, r.raised, None))

\* doc[key]
GetItem ==
    \E d \in DOMAIN docs, key \in {"name", "nick"} :
        LET r == getitem(docs[d].data, key) IN
        /\ docs' = docs
        /\ DocApply("getitem", d, key, [NoLookup EXCEPT !.value = r.value],
                    DocOutcome(docs[d], connection, records, << >>, r.raised, None))

\* doc.name = value
SetAttr ==
    \E d \in DOMAIN docs, name \in {"name", "nick"}, stored \in BOOLEAN :
        LET r == setattr(meta, docs[d].data, name, PyText("Ada"), stored) IN
        /\ docs' = [docs EXCEPT ![d].data = r.data]
        /\ DocApply("setattr", d, name, [NoLookup EXCEPT !.value = PyText("Ada")],
                    DocOutcome(docs'[d], connection, records, << >>, r.raised, None))

\* doc.save(storage)
DocSave ==
    \E d \in DOMAIN docs, storage \in {None, Shelf} :
        /\ Encodable(docs[d])
        /\ \E uid \in IF FreshKeys(records) = {} THEN {None} ELSE FreshKeys(records) :
               LET r == document_save(meta, docs[d], storage, FALSE,
                                      connection, records, uid) IN
               /\ r.raised # "AssertionError"
               /\ docs' = [docs EXCEPT ![d] = r.doc]
               /\ DocApply("save", d, storage, NoLookup, r)

\* the open handle of the second storage adapter; its uuid generator draws m1
Other == "other"
\* the most records a storage holds when documents are copied between two
MaxRecords == 2

\* doc.save(storage, keep_key) with two storages at hand
SaveTo ==
    \E d \in DOMAIN docs, storage \in {None, Shelf, Other}, keep_key \in BOOLEAN :
        LET target == IF storage # None THEN storage ELSE docs[d].saved.storage
            recs == IF target = Other THEN other ELSE records
            conn == IF target = Other THEN Other ELSE connection
            fresh == (IF target = Other THEN {"m1"} ELSE PKs) \ DOMAIN recs
        IN /\ connection # None
           /\ Encodable(docs[d])
           /\ \E uid \in IF fresh = {} THEN {None} ELSE fresh :
                  LET r == document_save(meta, docs[d], storage, keep_key,
                                         conn, recs, uid) IN
                  /\ r.raised # "AssertionError"
                  /\ Cardinality(DOMAIN r.records) <= MaxRecords
                  /\ docs' = [docs EXCEPT ![d] = r.doc]
                  /\ records' = IF target = Other THEN records ELSE r.records
                  /\ other' = IF target = Other THEN r.records ELSE other
                  /\ calls' = r.calls
                  /\ dret' = [op |-> "save", d |-> d, key |-> storage,
                              lookup |-> NoLookup, raised |-> r.raised,
                              value |-> r.value, created |-> FALSE, doc |-> r.doc,
                              keep_key |-> keep_key]
                  /\ UNCHANGED <<connection, ret, meta, classes, registry_vars, query_vars>>

\* doc.save(storage) of a document without a primary key, over a backend
\* whose _save generates no key for it
SaveKeyless ==
    \E d \in DOMAIN docs, storage \in {None, Shelf} :
        /\ Encodable(docs[d])
        /\ docs[d].saved.key = None
        /\ LET r == document_save(meta, docs[d], storage, FALSE,
                                  connection, records, None) IN
           /\ docs' = [docs EXCEPT ![d] = r.doc]
           /\ DocApply("save", d, storage, NoLookup, r)

\* a == b and the hashes of a and b (Document.__eq__ and __hash__ go to the
\* saved states; a document with a structure is a non-empty mapping, so
\* `not other` is false) where b is a itself, a new document or a document
\* fetched from one of the storages
Compare ==
    \E d \in DOMAIN docs :
        \E b \in {docs[d], init(meta, << >>).doc}
                 \cup {from_storage(meta, Shelf, k, records[k]) : k \in DOMAIN records}
                 \cup {from_storage(meta, Other, k, other[k]) : k \in DOMAIN other} :
            /\ docs' = docs
            /\ DocApply("compare", d, None, NoLookup,
                        DocOutcome(b, connection, records, << >>, None,
                            [eq |-> saved_state_eq(docs[d].saved, b.saved, connection),
                             hash |-> <<saved_state_hash(docs[d].saved, connection),
                                        saved_state_hash(b.saved, connection)>>]))

\* doc.delete()
DocDelete ==
    \E d \in DOMAIN docs :
        LET r == document_delete(docs[d], connection, records) IN
        /\ docs' = [docs EXCEPT ![d] = r.doc]
        /\ DocApply("delete", d, None, NoLookup, r)

\* doc.validate()
DocValidate ==
    \E d \in DOMAIN docs :
        /\ docs' = docs
        /\ DocApply("validate", d, None, NoLookup,
                    DocOutcome(docs[d], connection, records, << >>,
                               IF validate(meta, docs[d].data) THEN None
                               ELSE "ValidationError", None))

\* doc = storage.get(key, Document)
DocGet ==
    \E d \in Slots, key \in PKs :
        LET r == get_document(meta, connection, records, key) IN
        /\ docs' = IF r.raised = None THEN bind(d, r.doc) ELSE docs
        /\ DocApply("get", d, key, NoLookup, r)

\* doc, created = storage.get_or_create(Document, **conditions)
GetOrCreate ==
    \E lookup \in Conditions :
        \E uid \in IF FreshKeys(records) = {} THEN {None} ELSE FreshKeys(records) :
            LET r == get_or_create(meta, connection, records, lookup, uid) IN
            /\ r.raised # "AssertionError"
            /\ docs' = docs
            /\ DocApply("get_or_create", 0, None, lookup, r)

-----------------------------------------------------------------------------
(* Specifications                                                          *)

\* a freshly constructed ProcessorManager, beside an idle adapter
(* Document classes (DocumentMetaclass, DocumentMetadata)                  *)

\* the attributes of DocumentMetadata.CUSTOMIZABLE that hold a dictionary
\* keyed by field name
MetaAttrs == {"structure", "validators", "defaults", "incoming_processors"}

\* DocumentMetadata.__init__: every dictionary empty
EmptyMeta == [a \in MetaAttrs |-> << >>]

\* DocumentMetadata.update(data): setattr(self, attr, copy.copy(value)) for
\* every customizable attr of data
update(m, attrs) ==
    [a \in MetaAttrs |-> IF a \in DOMAIN attrs THEN attrs[a] ELSE m[a]]

\* DocumentMetadata.inherit(doc_classes): update from parent.meta.__dict__,
\* parent after parent
inherit(m, parents) ==
    LET upto[i \in 0..Len(parents)] ==
            IF i = 0 THEN m ELSE update(upto[i - 1], parents[i])
    IN upto[Len(parents)]

\* DocumentMetaclass.__new__(cls, name, bases, attrs): the meta of the class
metaclass_new(parents, attrs) == update(inherit(EmptyMeta, parents), attrs)

\* the largest number of classes declared under Document
MaxClasses == 3

\* class bodies: the customizable attributes a class declares
ClassBodies ==
    {<< >>,
     [structure |-> [name |-> "unicode"]],
     [structure |-> [age |-> "int"], defaults |-> [age |-> "0"]],
     [structure |-> [name |-> "int"], validators |-> [name |-> "required"]],
     [validators |-> [age |-> "required"],
      incoming_processors |-> [name |-> "strip"]]}

\* class name(bases): body, for bases among the classes declared so far
Declare ==
    /\ Len(classes) <= MaxClasses
    /\ \E attrs \in ClassBodies, b1 \in 1..Len(classes), b2 \in 0..Len(classes) :
           LET bases == IF b2 \in {0, b1} THEN <<b1>> ELSE <<b1, b2>>
               parents == [i \in 1..Len(bases) |-> classes[bases[i]].meta]
           IN classes' = Append(classes, [bases |-> bases, attrs |-> attrs,
                                         meta |-> metaclass_new(parents, attrs)])
    /\ UNCHANGED <<docs, meta, dret, registry_vars, adapter_vars, query_vars>>

\* the module as imported: Document is the only document class
InitClasses ==
    /\ processors = << >>
    /\ default = None
    /\ first_reg = [k \in Keys |-> None]
    /\ reg = NoCall
    /\ connection = Shelf
    /\ records = << >>
    /\ calls = << >>
    /\ ret = NoRet
    /\ other = << >>
    /\ queries = << >>
    /\ qret = NoQRet
    /\ docs = << >>
    /\ meta = PlainMeta
    /\ dret = NoDRet
    /\ classes = <<[bases |-> << >>, attrs |-> << >>, meta |-> EmptyMeta]>>

SpecClasses == InitClasses /\ [][Declare]_vars

\* Book(author=ref).save(storage) for class Book(Document) with
\* structure = {'author': Author}: the value is validated, converted by
\* Document.save and handed to storage.save under no key
book_save(conn, recs, ref, uid) ==
    IF ~check_type("Author", ref)
    THEN Outcome(conn, recs, << >>, "ValidationError", None)
    ELSE save(conn, recs, None, [author |-> value_to_db(ref)], uid)

\* BackwardRelation.__get__(instance, owner) of Author.book_set, the
\* descriptor Book.__init__ installs, read to the end: the keys of the
\* documents the query yields
book_set(instance, conn, recs) ==
    IF ~storage_nonzero(instance.saved.storage, conn)
    THEN [raised |-> "ValueError", value |-> {}]
    ELSE IF instance.saved.key = None
    THEN [raised |-> "ValueError", value |-> {}]
    ELSE LET query == where(find(conn).value, [name |-> "author", operation |-> None],
                            PyText(instance.saved.key)) IN
         IF query.raised # None THEN [raised |-> query.raised, value |-> {}]
         ELSE LET items == iterate(query.value, conn, recs, -1) IN
              [raised |-> items.raised,
               value |-> {items.value[i][1] : i \in DOMAIN items.value}]

\* author = Author(name=...); author.save(db)
SaveAuthor ==
    \E name \in {"Ada", "Bob"}, uid \in FreshKeys(records) :
        LET obj == init(meta, [f \in {"name"} |-> PyText(name)])
            r == document_save(meta, obj.doc, Shelf, FALSE, connection, records, uid)
        IN /\ r.raised = None
           /\ docs' = Append(docs, r.doc)
           /\ DocApply("save", Len(docs) + 1, Shelf, NoLookup, r)

\* Book(author=ref).save(db), ref a saved author or a primary key
SaveBook ==
    \E ref \in {[t |-> "Author", v |-> docs[d].saved.key, enc |-> 0] : d \in DOMAIN docs}
               \cup {PyText(k) : k \in PKs},
       uid \in FreshKeys(records) :
        LET r == book_save(connection, records, ref, uid) IN
        /\ r.raised = None
        /\ records' = r.records
        /\ calls' = r.calls
        /\ dret' = [NoDRet EXCEPT !.op = "save_book", !.value = r.value,
                                  !.lookup = [@ EXCEPT !.value = ref]]
        /\ UNCHANGED <<connection, ret, other, docs, meta, classes, registry_vars,
                       query_vars>>

\* list(author.book_set), once a Book has been instantiated
BookSet ==
    /\ \E k \in DOMAIN records : "author" \in DOMAIN records[k]
    /\ \E d \in DOMAIN docs :
           LET r == book_set(docs[d], connection, records) IN
           dret' = [NoDRet EXCEPT !.op = "book_set", !.d = d,
                                  !.raised = r.raised, !.value = r.value]
    /\ UNCHANGED <<docs, meta, classes, registry_vars, adapter_vars, query_vars>>

\* the values offered to the type check: None, a primary key, numbers, a
\* list of keys, documents of two classes and a plain object
TypedValues ==
    {PyNone, PyText("k1"), PyInt("1"),
     [t |-> "bool", v |-> "True", enc |-> 0],
     [t |-> "list", v |-> "[k1]", enc |-> 0],
     [t |-> "Note", v |-> "note", enc |-> 0],
     [t |-> "Contact", v |-> "contact", enc |-> 0],
     [t |-> "object", v |-> "object", enc |-> 0]}

\* _validate_value_type(doc, key, value) for a field whose entry in
\* meta.structure is datatype (None: no entry)
ValidateType ==
    \E datatype \in {None} \cup LazyPaths \cup Classes \cup Relations,
       value \in TypedValues :
        /\ dret' = [NoDRet EXCEPT !.op = "validate_value_type",
                                  !.key = datatype,
                                  !.lookup = [@ EXCEPT !.value = value],
                                  !.raised = IF check_type(datatype, value) THEN None
                                             ELSE "ValidationError"]
        /\ UNCHANGED <<docs, meta, classes, registry_vars, adapter_vars, query_vars>>

SpecTypes == InitClasses /\ [][ValidateType]_vars

\* doc_class.from_storage(storage, key, data) over a record of the storage
FromStorage ==
    \E key \in DOMAIN records :
        LET raised == from_storage_raised(meta, records[key]) IN
        /\ dret' = [NoDRet EXCEPT
                       !.op = "from_storage", !.key = key, !.raised = raised,
                       !.doc = IF raised = None
                               THEN from_storage(meta, Shelf, key, records[key])
                               ELSE NoDoc]
        /\ UNCHANGED <<docs, meta, classes, registry_vars, adapter_vars, query_vars>>

\* a storage holding two records written through the adapter, well encoded
\* or not, and a document class that breaks on invalid incoming data or not
InitLoad ==
    /\ processors = << >>
    /\ default = None
    /\ first_reg = [k \in Keys |-> None]
    /\ reg = NoCall
    /\ connection = Shelf
    /\ \E n1, n2 \in {PyNone, PyText("Ada"), [PyText("Ada") EXCEPT !.enc = 1]},
          a1, a2 \in {PyInt("1"), PyText("x"), [PyText("x") EXCEPT !.enc = 1]} :
           records = [k \in {"k1", "k2"} |->
                         IF k = "k1" THEN [name |-> n1, age |-> a1]
                         ELSE [name |-> n2, age |-> a2]]
    /\ calls = << >>
    /\ ret = NoRet
    /\ other = << >>
    /\ queries = << >>
    /\ qret = NoQRet
    /\ docs = << >>
    /\ \E brk \in BOOLEAN, skip \in {{}, {"name"}} :
           meta = [PlainMeta EXCEPT !.break_on_invalid_incoming_data = brk,
                                    !.skip_type_conversion = skip]
    /\ dret = NoDRet
    /\ classes = << >>

SpecLoad == InitLoad /\ [][FromStorage]_vars

InitRegistry ==
    /\ processors = << >>
    /\ default = None
    /\ first_reg = [k \in Keys |-> None]
    /\ reg = NoCall
    /\ connection = Shelf
    /\ records = << >>
    /\ calls = << >>
    /\ ret = NoRet
    /\ other = << >>
    /\ queries = << >>
    /\ qret = NoQRet
    /\ docs = << >>
    /\ meta = PlainMeta
    /\ dret = NoDRet
    /\ classes = << >>

SpecRegistry == InitRegistry /\ [][NextRegistry]_vars

\* a converter registry as a backend module leaves it: some of the types have
\* a handler, named after the type it was registered for
InitConverters ==
    /\ \E registered \in SUBSET {"object", "basestring", "int", "Document",
                                 "Note", "OneToManyRelation"} :
           processors = [k \in registered |-> k]
    /\ default = None
    /\ first_reg = [k \in Keys |-> None]
    /\ reg = NoCall
    /\ connection = Shelf
    /\ records = << >>
    /\ calls = << >>
    /\ ret = NoRet
    /\ other = << >>
    /\ queries = << >>
    /\ qret = NoQRet
    /\ docs = << >>
    /\ meta = PlainMeta
    /\ dret = NoDRet
    /\ classes = << >>

SpecConverters == InitConverters /\ [][FromDb \/ ToDb]_vars

\* first_reg of the lookup registry as the backend module leaves it
LoadedFirst == [k \in Keys |-> IF k \in DOMAIN ShelveLookups
                                THEN ShelveLookups[k] ELSE None]

NextAdapter ==
    \/ Connect /\ UNCHANGED query_vars
    \/ Disconnect /\ UNCHANGED query_vars
    \/ Reconnect /\ UNCHANGED query_vars
    \/ Clear /\ UNCHANGED query_vars
    \/ Delete /\ UNCHANGED query_vars
    \/ Sync /\ UNCHANGED query_vars
    \/ Get /\ UNCHANGED query_vars
    \/ GetMany /\ UNCHANGED query_vars
    \/ Save /\ UNCHANGED query_vars
    \/ Find

\* the public methods called with positional arguments in either order, over
\* an adapter that may be disconnected
NextArgs ==
    \/ GetArgs
    \/ GetManyArgs
    \/ SaveArgs
    \/ Disconnect /\ UNCHANGED query_vars
    \/ Connect /\ UNCHANGED query_vars

\* BaseStorageAdapter.__init__ on a new shelf: connection = None, then
\* connect(); the lookup registry is loaded with the backend module
InitAdapter ==
    /\ processors = ShelveLookups
    /\ default = "exact_match"
    /\ first_reg = LoadedFirst
    /\ reg = NoCall
    /\ connection = Shelf
    /\ records = << >>
    /\ calls = << >>
    /\ ret = NoRet
    /\ other = << >>
    /\ queries = << >>
    /\ qret = NoQRet
    /\ docs = << >>
    /\ meta = PlainMeta
    /\ dret = NoDRet
    /\ classes = << >>

\* one storage adapter, from its construction on
SpecAdapter == InitAdapter /\ [][NextAdapter]_vars

SpecArgs == InitAdapter /\ [][NextArgs]_vars

NextQuery ==
    \/ Find \/ Where \/ WhereNot \/ OrderBy \/ Iterate
    \/ Delete /\ UNCHANGED query_vars

\* an adapter opened on a shelf file that already holds records
InitStore ==
    /\ processors = ShelveLookups
    /\ default = "exact_match"
    /\ first_reg = LoadedFirst
    /\ reg = NoCall
    /\ connection = Shelf
    /\ records \in UNION { [K -> {prepare_data_for_saving(d) : d \in SampleData}] :
                             K \in SUBSET PKs }
    /\ calls = << >>
    /\ ret = NoRet
    /\ other = << >>
    /\ queries = << >>
    /\ qret = NoQRet
    /\ docs = << >>
    /\ meta = PlainMeta
    /\ dret = NoDRet
    /\ classes = << >>

\* queries over one connected storage adapter
SpecQuery == InitStore /\ [][NextQuery]_vars

\* searches over one connected storage adapter: conditions, ordering,
\* distinct values (which iterate the query) and deletion by query
SpecSearch ==
    InitStore /\ [][Find \/ Where \/ WhereAll \/ OrderBy \/ QDelete \/ QValues]_vars

NextDoc ==
    \/ New \/ SetItem \/ DocSave \/ DocDelete \/ DocGet \/ GetOrCreate

\* a document class over a storage adapter on a new shelf
InitSchema ==
    /\ processors = ShelveLookups
    /\ default = "exact_match"
    /\ first_reg = LoadedFirst
    /\ reg = NoCall
    /\ connection = Shelf
    /\ records = << >>
    /\ calls = << >>
    /\ ret = NoRet
    /\ other = << >>
    /\ queries = << >>
    /\ qret = NoQRet
    /\ docs = << >>
    /\ meta \in Metas
    /\ dret = NoDRet
    /\ classes = << >>

\* documents of one class over one storage adapter
SpecDoc == InitSchema /\ [][NextDoc]_vars

\* authors and books saved to one storage adapter
SpecRelation == InitSchema /\ [][SaveAuthor \/ SaveBook \/ BookSet]_vars

\* a document class over two storage adapters; the first shelf is new or
\* holds one record saved without the document class, with a field the
\* schema does not declare
InitCopy ==
    /\ processors = ShelveLookups
    /\ default = "exact_match"
    /\ first_reg = LoadedFirst
    /\ reg = NoCall
    /\ connection = Shelf
    /\ records \in { << >>,
                     [k \in {"k1"} |-> prepare_data_for_saving(
                         [name |-> PyText("Ada"), nick |-> PyText("Zed")])] }
    /\ calls = << >>
    /\ ret = NoRet
    /\ other = << >>
    /\ queries = << >>
    /\ qret = NoQRet
    /\ docs = << >>
    /\ meta = PlainMeta
    /\ dret = NoDRet
    /\ classes = << >>

\* documents of one class saved to, copied between and compared over two
\* storage adapters, the first of which may be disconnected
SpecCopy ==
    InitCopy /\ [][New \/ DocGet \/ SaveTo \/ Compare
                     \/ (Disconnect /\ UNCHANGED query_vars)]_vars

\* the fields of documents of one class, new or fetched, read and set by item
\* and by attribute
SpecFields == InitCopy /\ [][New \/ DocGet \/ SetItem \/ GetItem \/ SetAttr]_vars

\* documents of one class saved to one storage adapter, whose backend may
\* fail to generate a key; the shelf is new or holds one record saved without
\* the document class, which lacks the field "name"
InitSave ==
    /\ processors = ShelveLookups
    /\ default = "exact_match"
    /\ first_reg = LoadedFirst
    /\ reg = NoCall
    /\ connection = Shelf
    /\ records \in { << >>,
                     [k \in {"k1"} |-> prepare_data_for_saving(
                         [nick |-> PyText("Zed")])] }
    /\ calls = << >>
    /\ ret = NoRet
    /\ other = << >>
    /\ queries = << >>
    /\ qret = NoQRet
    /\ docs = << >>
    /\ meta \in Metas
    /\ dret = NoDRet
    /\ classes = << >>

SpecSave == InitSave /\ [][New \/ SetItem \/ DocGet \/ DocSave \/ SaveKeyless]_vars

\* the life of a document of one class over one storage adapter: constructed
\* or fetched, its fields set and read, validated, saved and deleted
SpecState ==
    InitSave /\ [][New \/ DocGet \/ SetItem \/ GetItem \/ DocValidate
                     \/ DocSave \/ DocDelete]_vars

-----------------------------------------------------------------------------
(* References between document classes                                     *)

\* the document classes of the application and their meta.structure
Schema ==
    [c \in {"Author", "Contact", "Book", "Note"} |->
        CASE c = "Book" -> [author |-> "Author"]
          [] c = "Note" -> [author |-> "Author", contacts |-> "Many(Contact)"]
          [] OTHER -> [name |-> "unicode"]]

\* meta.lowercase_name: camel_case_to_underscores(name)
lowercase_name ==
    [c \in DOMAIN Schema |->
        CASE c = "Author" -> "author" [] c = "Contact" -> "contact"
          [] c = "Book" -> "book" [] c = "Note" -> "note"]

\* OneToManyRelation.document_class
document_class(datatype) == IF datatype = "Many(Note)" THEN "Note" ELSE "Contact"

\* _get_related_document_class(cls, field)
get_related_document_class(c, field) ==
    IF field \notin DOMAIN Schema[c] THEN None
    ELSE LET datatype == Schema[c][field] IN
         IF issubclass(datatype, "Document") THEN datatype
         ELSE IF datatype \in Relations THEN document_class(datatype)
         ELSE None

\* the most instances constructed in one run
MaxInstances == 3

\* the descriptor loop of Document.__init__ that sets the attribute on the
\* class of the instance
install_on_own_class(dicts, c, instance) ==
    [r \in DOMAIN dicts |->
        IF r = c /\ \E f \in DOMAIN Schema[c] : get_related_document_class(c, f) # None
        THEN LET field == CHOOSE f \in DOMAIN Schema[c] :
                              get_related_document_class(c, f) # None
                 rel_name == lowercase_name[c] \o "_set"
             IN [n \in DOMAIN dicts[r] \cup {rel_name} |->
                    IF n = rel_name
                    THEN [related_model |-> instance, attr_name |-> field]
                    ELSE dicts[r][n]]
        ELSE dicts[r]]

\* the loop at the end of Document.__init__: for every field with a related
\* class, setattr(ref_doc, rel_name, BackwardRelation(self, field)); dicts
\* holds the descriptors in the __dict__ of every class
install(dicts, c, instance) ==
    [r \in DOMAIN dicts |->
        IF \E f \in DOMAIN Schema[c] : get_related_document_class(c, f) = r
        THEN LET field == CHOOSE f \in DOMAIN Schema[c] :
                              get_related_document_class(c, f) = r
                 rel_name == lowercase_name[c] \o "_set"
             IN [n \in DOMAIN dicts[r] \cup {rel_name} |->
                    IF n = rel_name
                    THEN [related_model |-> instance, attr_name |-> field]
                    ELSE dicts[r][n]]
        ELSE dicts[r]]

\* what BackwardRelation.__get__ of a descriptor searches:
\* related_model.objects(storage) is the classmethod of the class of the
\* instance, the condition is on attr_name
resolves_to(descriptor) ==
    [doc_class |-> descriptor.related_model.cls, field |-> descriptor.attr_name]

\* Document.__init__(**kw) of class c, up to the descriptor loop
new_document(c, kw) ==
    IF \E k \in DOMAIN kw : k \notin DOMAIN Schema[c]
    THEN [raised |-> "KeyError", doc |-> [cls |-> c, data |-> << >>, saved |-> NoState]]
    ELSE [raised |-> None,
          doc |-> [cls |-> c,
                   data |-> [f \in DOMAIN Schema[c] |->
                               IF f \in DOMAIN kw /\ check_type(Schema[c][f], kw[f])
                               THEN kw[f] ELSE PyNone],
                   saved |-> NoState]]

\* DocumentSavedState.__nonzero__: bool(self.storage or self.key)
saved_state_nonzero(state, conn) ==
    storage_nonzero(state.storage, conn) \/ state.key # None

\* _get_document_by_ref(doc, field, value) for a single reference. The
\* message of the RuntimeError for an instance without a saved state is
\* formatted with name=key, and no name `key` is defined in the function or
\* in the module: evaluating it raises NameError
get_document_by_ref(doc, field, value, conn, recs) ==
    LET ref_class == get_related_document_class(doc.cls, field) IN
    IF is_empty(value) \/ ref_class = None
    THEN [raised |-> None, value |-> value, calls |-> << >>]
    ELSE IF value.t \in Documents
    THEN [raised |-> IF issubclass(value.t, ref_class) THEN None ELSE "AssertionError",
          value |-> value, calls |-> << >>]
    ELSE IF ~saved_state_nonzero(doc.saved, conn)
    THEN [raised |-> "NameError", value |-> value, calls |-> << >>]
    ELSE LET r == get_document(PlainMeta, conn, recs, value.v) IN
         [raised |-> r.raised, value |-> [t |-> ref_class, v |-> value.v, enc |-> 0],
          calls |-> r.calls]

\* Document.__getitem__(key): a reference is resolved and the result is
\* stored in place of the raw value by self[key] = value
getitem_ref(doc, key, conn, recs) ==
    IF key \notin DOMAIN doc.data
    THEN DocOutcome(doc, conn, recs, << >>, "KeyError", None)
    ELSE IF get_related_document_class(doc.cls, key) = None
    THEN DocOutcome(doc, conn, recs, << >>, None, doc.data[key])
    ELSE LET r == get_document_by_ref(doc, key, doc.data[key], conn, recs) IN
         IF r.raised # None
         THEN DocOutcome(doc, conn, recs, r.calls, r.raised, None)
         ELSE DocOutcome([doc EXCEPT !.data[key] = r.value], conn, recs, r.calls,
                         None, r.value)

\* the keyword arguments given to the constructor of class c
RefKwargs(c) ==
    IF c = "Book"
    THEN { << >>, [f \in {"author"} |-> PyText("k1")], [f \in {"author"} |-> PyText("k2")],
           [f \in {"author"} |-> [t |-> "Author", v |-> "k1", enc |-> 0]],
           [f \in {"nick"} |-> PyText("Ada")] }
    ELSE { << >> }

\* doc = c(**kw) for a class c of the application
NewRef ==
    \E d \in Slots, c \in DOMAIN Schema :
        \E kw \in RefKwargs(c) :
            LET r == new_document(c, kw)
                instance == [cls |-> c, id |-> classes.instances + 1]
            IN /\ classes.instances < MaxInstances
               /\ docs' = IF r.raised = None THEN bind(d, r.doc) ELSE docs
               /\ classes' = IF r.raised # None THEN classes
                             ELSE [dicts |-> install(classes.dicts, c, instance),
                                   instances |-> classes.instances + 1]
               /\ dret' = [NoDRet EXCEPT !.op = "new", !.d = d, !.key = c,
                                         !.raised = r.raised]
               /\ calls' = << >>
               /\ UNCHANGED <<connection, records, ret, other, meta, registry_vars,
                              query_vars>>

\* book.save(db) of a new Book
SaveRef ==
    \E d \in DOMAIN docs, uid \in FreshKeys(records) :
        /\ docs[d].cls = "Book"
        /\ docs[d].saved = NoState
        /\ LET r == book_save(connection, records, docs[d].data.author, uid) IN
           /\ r.raised = None
           /\ docs' = [docs EXCEPT ![d].saved =
                          saved_state_update(@, Shelf, r.value,
                                             [author |-> value_to_db(docs[d].data.author)])]
           /\ DocApply("save", d, Shelf, NoLookup,
                       DocOutcome(docs'[d], r.connection, r.records, r.calls, None, r.value))

\* doc[key] for a field of the class of doc
ReadRef ==
    \E d \in DOMAIN docs :
        \E key \in DOMAIN docs[d].data \ {"contacts"} :
            LET r == getitem_ref(docs[d], key, connection, records) IN
            /\ docs' = [docs EXCEPT ![d] = r.doc]
            /\ DocApply("getitem", d, key, [NoLookup EXCEPT !.value = r.value], r)

\* the classes as imported, over a shelf that holds one author
InitReference ==
    /\ processors = ShelveLookups
    /\ default = "exact_match"
    /\ first_reg = LoadedFirst
    /\ reg = NoCall
    /\ connection = Shelf
    /\ records = [k \in {"k1"} |-> prepare_data_for_saving([name |-> PyText("Ada")])]
    /\ calls = << >>
    /\ ret = NoRet
    /\ other = << >>
    /\ queries = << >>
    /\ qret = NoQRet
    /\ docs = << >>
    /\ meta = PlainMeta
    /\ dret = NoDRet
    /\ classes = [dicts |-> [c \in DOMAIN Schema |-> << >>], instances |-> 0]

\* documents of classes that refer to each other, constructed, saved and read
SpecReference == InitReference /\ [][NewRef \/ SaveRef \/ ReadRef]_vars

-----------------------------------------------------------------------------
(* Processor registry: resolution and registration                         *)

\* C1 (as stated): get_processor(k) returns the handler registered under k
\* when there is one, returns the default handler when k has no handler and a
\* default was registered (also for a non-empty k), and fails only when
\* neither exists.
C1_ResolveFallsBackForAnyKey ==
    reg.op = "get_processor" =>
        /\ reg.key \in DOMAIN processors =>
               reg.raised = None /\ reg.value = processors[reg.key]
        /\ reg.key \notin DOMAIN processors /\ default # None =>
               reg.raised = None /\ reg.value = default
        /\ reg.raised # None => reg.key \notin DOMAIN processors /\ default = None

\* C1 (amended): a non-empty key resolves to the handler registered under it
\* and fails with the processor-not-found error when it has none, whether or
\* not a default was registered; an empty key (None, '') resolves to the
\* default handler when one was registered, whatever is registered under the
\* empty key, and fails with the processor-not-found error otherwise.
C1_ResolveDefaultOnlyForEmptyKey ==
    reg.op = "get_processor" =>
        IF Truthy(reg.key)
        THEN IF reg.key \in DOMAIN processors
             THEN reg.raised = None /\ reg.value = processors[reg.key]
             ELSE reg.raised = "DataProcessorDoesNotExist" /\ reg.value = None
        ELSE IF default # None
             THEN reg.raised = None /\ reg.value = default
             ELSE reg.raised = "DataProcessorDoesNotExist" /\ reg.value = None

\* a non-empty key without a handler was resolved while a default existed
C1_Witness ==
    /\ reg.op = "get_processor"
    /\ Truthy(reg.key)
    /\ reg.key \notin DOMAIN processors
    /\ default # None
    /\ reg.raised = "DataProcessorDoesNotExist"

\* C2: register on a key that already has a handler fails and leaves the
\* handler map and the default unchanged, also with default=True; so every
\* key maps to the handler of the first successful register since the key was
\* last unregistered.
C2_FirstRegistrationWins ==
    /\ [](\A k \in Keys :
             IF k \in DOMAIN processors THEN processors[k] = first_reg[k]
             ELSE first_reg[k] = None)
    /\ [][reg'.op = "register" /\ reg'.key \in DOMAIN processors =>
             /\ reg'.raised = "RuntimeError"
             /\ processors' = processors
             /\ default' = default]_vars

\* a register with default=True failed on a taken key and the default is
\* still another handler
C2_Witness ==
    /\ reg.op = "register"
    /\ reg.raised = "RuntimeError"
    /\ reg.as_default
    /\ reg.key \in DOMAIN processors
    /\ processors[reg.key] # reg.processor
    /\ default # reg.processor

-----------------------------------------------------------------------------
(* Storage adapter: connection lifecycle                                   *)

\* C3: connect on a connected adapter fails and keeps the connection handle;
\* disconnect, clear, delete, save, sync, get, get_many and find on a
\* disconnected adapter fail with the not-connected error, invoke no backend
\* primitive and change no stored record.
C3_ConnectionGuards ==
    [][/\ ret'.op = "connect" /\ connection # None =>
              /\ ret'.raised = "RuntimeError"
              /\ connection' = connection
              /\ calls' = << >>
       /\ (/\ ret'.op \in {"disconnect", "clear", "delete", "save", "sync", "get",
                          "get_many", "find"}
           /\ connection = None) =>
              /\ ret'.raised = "RuntimeError"
              /\ calls' = << >>
              /\ records' = records
              /\ connection' = None
              /\ queries' = queries]_vars

\* a save was refused on a disconnected adapter that holds records
C3_Witness ==
    /\ ret.op = "save"
    /\ ret.raised = "RuntimeError"
    /\ connection = None
    /\ records # << >>

\* C4: reconnect on a connected adapter runs the backend disconnect and then
\* the backend connect, once each, and ends connected; on a disconnected
\* adapter it fails with the not-connected error, attempts no connect and
\* leaves the adapter disconnected.
C4_ReconnectIsDisconnectThenConnect ==
    [][ret'.op = "reconnect" =>
           IF connection # None
           THEN /\ ret'.raised = None
                /\ calls' = <<"_disconnect", "_connect">>
                /\ connection' # None
           ELSE /\ ret'.raised = "RuntimeError"
                /\ calls' = << >>
                /\ connection' = None]_vars

\* a reconnect ran both primitives and left the adapter connected
C4_Witness ==
    /\ ret.op = "reconnect"
    /\ ret.raised = None
    /\ calls = <<"_disconnect", "_connect">>
    /\ connection = Shelf

-----------------------------------------------------------------------------
(* Query adapter: result cache and refinement                              *)

\* C5: however often a Query is iterated, the backend search runs at most
\* once for it, and every complete iteration yields the sequence the first
\* complete iteration yielded (also after an iteration reached the end and
\* for an empty result set).
C5_CacheLaw ==
    \A q \in DOMAIN queries :
        /\ queries[q].searches <= 1
        /\ (qret.op = "iter" /\ qret.q = q /\ qret.raised = None /\ qret.ended
            /\ queries[q].first_full # << >>)
               => qret.value = queries[q].first_full[1]

\* C6: where, where_not and order_by leave the query they are called on
\* unchanged, and each returns a new Query whose conditions are the parent's
\* followed by the new ones and whose cache is empty and its own.
C6_RefinementReturnsNewQuery ==
    [][qret'.op \in {"where", "where_not", "order_by"} /\ qret' # qret =>
           /\ \A q \in DOMAIN queries : queries'[q] = queries[q]
           /\ (qret'.op = "order_by"
               \/ qret'.arg.operation \in DOMAIN processors \cup {None}) =>
                  /\ qret'.raised = None
                  /\ Len(queries') = Len(queries) + 1
                  /\ qret'.new = Len(queries')
                  /\ queries'[qret'.new].cache = << >>
                  /\ queries'[qret'.new].conditions =
                        queries[qret'.q].conditions \o
                        (IF qret'.op = "order_by" THEN << >>
                         ELSE <<native_condition(
                                   processors[IF qret'.arg.operation = None
                                              THEN "equals"
                                              ELSE qret'.arg.operation],
                                   qret'.arg.name, qret'.arg.value,
                                   qret'.op = "where_not")>>)]_vars

-----------------------------------------------------------------------------
(* Document entity: save, delete, defaults, get_or_create                  *)

\* the stored form Document.save followed by BaseStorageAdapter.save gives
\* the field value v of a document of class m
stored_form(m, f, v) ==
    IF f \in m.skip_type_conversion THEN value_to_db(v)
    ELSE value_to_db(value_to_db(v))

\* C7: after key = d.save(s), the document that s.get(key, variant) returns
\* has, for every schema field that is not conversion-exempt, the value d
\* holds for that field.
C7_SaveGetRoundTrip ==
    dret.op = "save" /\ dret.raised = None =>
        LET fetched == get_document(meta, connection, records, dret.value) IN
        /\ fetched.raised = None
        /\ \A f \in DOMAIN structure \ meta.skip_type_conversion :
               fetched.doc.data[f] = docs[dret.d].data[f]

\* C8: delete() on a document without a bound storage or without a primary
\* key fails and changes no stored record; delete() on a bound document (its
\* storage connected) leaves no record under its key, so that a get by that
\* key on that storage raises the not-found error.
C8_DeleteUnboundFailsBoundRemoves ==
    [][dret'.op = "delete" /\ dret' # dret =>
           LET doc == docs[dret'.d] IN
           IF doc.saved.storage = None \/ doc.saved.key = None
           THEN /\ dret'.raised = "ValueError"
                /\ records' = records
                /\ calls' = << >>
           ELSE connection # None =>
                /\ doc.saved.key \in DOMAIN records => dret'.raised = None
                /\ doc.saved.key \notin DOMAIN records'
                /\ get(connection', records', doc.saved.key).raised = "KeyError"
                /\ \A k \in DOMAIN records \ {doc.saved.key} :
                       k \in DOMAIN records' /\ records'[k] = records[k]]_vars

\* a bound document was deleted and its record is gone
C8_Witness ==
    /\ dret.op = "delete"
    /\ dret.raised = None
    /\ docs[dret.d].saved.storage = Shelf
    /\ docs[dret.d].saved.key \notin DOMAIN records
    /\ get(connection, records, docs[dret.d].saved.key).raised = "KeyError"

\* C9: save() of a document whose required field is empty (None or '') and
\* has no default fails with a validation error and writes nothing; with a
\* default for the field the save succeeds and the written record carries
\* the default in the field; a field that holds a non-empty value is never
\* replaced by its default.
C9_RequiredAndDefaults ==
    [][(/\ dret'.op = "save" /\ dret' # dret
        /\ connection # None
        /\ dret'.raised # "AttributeError") =>
           LET old == docs[dret'.d].data["name"]
               new == docs'[dret'.d].data["name"]
           IN /\ (meta.required /\ is_empty(old) /\ ~meta.with_default) =>
                     /\ dret'.raised = "ValidationError"
                     /\ records' = records
                     /\ calls' = << >>
              /\ (is_empty(old) /\ meta.with_default) =>
                     /\ dret'.raised = None
                     /\ new = DefaultName
                     /\ dret'.value \in DOMAIN records'
                     /\ records'[dret'.value]["name"] =
                            stored_form(meta, "name", DefaultName)
              /\ ~is_empty(old) =>
                     /\ new = old
                     /\ dret'.raised = None
                     /\ records'[dret'.value]["name"] = stored_form(meta, "name", old)]_vars

\* a document of a class with a required field and a default for it was
\* saved with the field empty: the document and the record carry the default
C9_Witness ==
    /\ dret.op = "save"
    /\ dret.raised = None
    /\ meta.required /\ meta.with_default
    /\ docs[dret.d].data["name"] = DefaultName
    /\ dret.value \in DOMAIN records
    /\ records[dret.value]["name"] = stored_form(meta, "name", DefaultName)

\* the records of the storage that satisfy a condition of get_or_create
matching(recs, lookup) ==
    {k \in DOMAIN recs :
        check(native_condition("exact_match", lookup.name, lookup.value, FALSE), recs[k])}

\* C10: get_or_create returns created=false and adds no record when a record
\* matches the conditions, and otherwise adds exactly one record and returns
\* created=true; a following call with the same conditions then finds that
\* record, so that successive calls create at most one record in total and
\* return equal documents.
C10_GetOrCreateIdempotent ==
    [][(dret'.op = "get_or_create" /\ dret' # dret /\ connection # None) =>
           /\ dret'.raised = None
           /\ IF matching(records, dret'.lookup) # {}
              THEN /\ ~dret'.created
                   /\ records' = records
                   /\ dret'.doc.saved.key \in matching(records, dret'.lookup)
              ELSE /\ dret'.created
                   /\ Cardinality(DOMAIN records') = Cardinality(DOMAIN records) + 1
                   /\ \A k \in DOMAIN records : records'[k] = records[k]
                   /\ matching(records', dret'.lookup) = {dret'.doc.saved.key}]_vars

-----------------------------------------------------------------------------
(* Document.save: key, saved state and undeclared fields                   *)

\* C11: on a connected storage Document.save hands the document's existing primary key to the
\* storage exactly when keep_key is set or the target storage is the storage
\* the document is bound to, and the record is then written under that key;
\* in every other case it hands None, the backend generates a key that the
\* target did not hold and that is not the old key, and the storage the
\* document was bound to is left unchanged.
C11_KeyHandedToStorage ==
    [][dret'.op = "save" /\ connection' # None /\ dret'.raised = None =>
          LET old == docs[dret'.d].saved
              target == IF dret'.key # None THEN dret'.key ELSE old.storage
              before == IF target = Other THEN other ELSE records
              reuse == dret'.keep_key \/ target = old.storage
          IN /\ calls' = <<"_save">>
             /\ reuse /\ old.key # None => dret'.value = old.key
             /\ ~reuse \/ old.key = None => dret'.value \notin DOMAIN before
             /\ ~reuse => /\ dret'.value # old.key
                          /\ old.storage = Shelf => records' = records
                          /\ old.storage = Other => other' = other]_vars

\* a document bound to the first storage was saved to the second one without
\* keep_key: the copy has the generated key and the first storage still holds
\* the record under the old key
C11_Witness ==
    /\ dret.op = "save" /\ dret.raised = None
    /\ dret.key = Other /\ ~dret.keep_key
    /\ dret.value = "m1"
    /\ \E k \in DOMAIN records : records[k] = other["m1"]

\* C12 (as stated): after every successful Document.save the saved state
\* holds the target storage, the key the backend returned (the document's pk
\* and the value save returns) and the dictionary that was written, that is
\* the record the storage holds under that key; a save() with no arguments
\* of a document whose record exists reuses the key and leaves the number of
\* records unchanged.
C12_SavedStateAfterSave ==
    [][dret'.op = "save" /\ connection' # None /\ dret'.raised = None =>
          LET old == docs[dret'.d].saved
              new == docs'[dret'.d].saved
              target == IF dret'.key # None THEN dret'.key ELSE old.storage
              before == IF target = Other THEN other ELSE records
              after == IF target = Other THEN other' ELSE records'
          IN /\ new.storage = target
             /\ new.key = dret'.value
             /\ new.key \in DOMAIN after
             /\ new.data = after[new.key]
             /\ dret'.key = None /\ ~dret'.keep_key /\ old.key \in DOMAIN before =>
                    /\ dret'.value = old.key
                    /\ Cardinality(DOMAIN after) = Cardinality(DOMAIN before)]_vars

\* C13 (as stated): when a document fetched from a storage is saved back to
\* it, every field of the record it was fetched from that the schema does not
\* declare is in the written record with its value unchanged.
C13_UndeclaredFieldsKept ==
    [][/\ dret'.op = "save" /\ connection' # None /\ dret'.raised = None /\ dret'.key = None
       /\ docs[dret'.d].saved.storage = Shelf
       /\ docs[dret'.d].saved.key \in DOMAIN records
       /\ docs[dret'.d].saved.data = records[docs[dret'.d].saved.key]
       => LET key == docs[dret'.d].saved.key IN
          /\ key \in DOMAIN records'
          /\ \A f \in DOMAIN records[key] \ DOMAIN structure :
                 f \in DOMAIN records'[key] /\ records'[key][f] = records[key][f]]_vars

-----------------------------------------------------------------------------
(* get_many with missing keys                                              *)

\* C14 (as stated): when some of the keys given to get_many are absent from
\* the backend, consuming the result raises one not-found error that names
\* every missing key, not only the first one met.
C14_GetManyNamesEveryMissingKey ==
    ret.op = "get_many" /\ ret.raised # "RuntimeError" =>
        LET missing == {ret.key[i] : i \in {j \in DOMAIN ret.key :
                                               ret.key[j] \notin DOMAIN records}}
        IN missing # {} =>
               /\ ret.raised = "KeyError"
               /\ {ret.value.named[i] : i \in DOMAIN ret.value.named} = missing

-----------------------------------------------------------------------------
(* Document equality and hashing                                           *)

\* C15 (as stated): a == b holds exactly when both documents have a storage
\* and a key and their storages and keys are equal; equal documents have
\* equal hashes; hashing a document whose storage or key is undefined fails.
C15_SameRecord ==
    dret.op = "compare" =>
        LET a == docs[dret.d].saved
            b == dret.doc.saved
            hash_a == dret.value.hash[1]
            hash_b == dret.value.hash[2]
        IN /\ dret.value.eq <=>
                  /\ a.storage # None /\ a.key # None
                  /\ b.storage # None /\ b.key # None
                  /\ a.storage = b.storage /\ a.key = b.key
           /\ dret.value.eq => hash_a.raised = None /\ hash_a = hash_b
           /\ a.storage = None \/ a.key = None => hash_a.raised = "TypeError"

-----------------------------------------------------------------------------
(* Fields outside the structure                                            *)

\* C16 (as stated): the keys of the data of a document with a structure are
\* always fields of the structure; setting or reading a key that is not in
\* the structure, by item access or by attribute access, fails and leaves
\* the data unchanged.
C16_NoForeignKeys ==
    /\ [](\A d \in DOMAIN docs : DOMAIN docs[d].data \subseteq DOMAIN structure)
    /\ [][dret'.op \in {"setitem", "getitem", "setattr"}
            /\ dret'.key \notin DOMAIN structure
            => dret'.raised # None /\ docs' = docs]_vars

-----------------------------------------------------------------------------
(* Queries: conjunction, ordering, deletion, distinct values               *)

\* C17: for every query q and every two conditions under distinct keywords,
\* q.where(c1).where(c2) and q.where(c1, c2) either both fail or are two
\* queries that match the same records of the storage and yield the same
\* results.
C17_WhereChainIsConjunction ==
    \A q \in DOMAIN queries, l1 \in Lookups, l2 \in Lookups :
        <<l1.name, l1.operation>> # <<l2.name, l2.operation>> =>
            LET first == where(queries[q], l1, l1.value)
                chain == IF first.raised # None THEN first
                         ELSE where(first.value, l2, l2.value)
                both == where_all(queries[q], <<l1, l2>>, << >>)
            IN /\ (chain.raised = None) <=> (both.raised = None)
               /\ chain.raised = None =>
                      /\ \A k \in DOMAIN records :
                             matches(chain.value, records[k])
                                 <=> matches(both.value, records[k])
                      /\ iterate(chain.value, connection, records, -1).value
                             = iterate(both.value, connection, records, -1).value

\* where was called with two conditions on a query that has a condition
\* already, and the storage holds a record that meets the first of the new
\* conditions only and one that meets all
C17_Witness ==
    /\ qret.op = "where_all" /\ qret.raised = None
    /\ LET n == queries[qret.new] IN
       /\ Len(n.conditions) = 2
       /\ \E k \in DOMAIN records : /\ check(n.conditions[1], records[k])
                                     /\ ~check(n.conditions[2], records[k])
       /\ \E k \in DOMAIN records : matches(n, records[k])

\* C18 (as stated): order_by([n1, n2, ...]) over matching records with
\* distinct sort-key tuples yields them sorted by n1 first, ties broken by
\* n2, and so on; with reverse=True in exactly the reverse order. The names
\* the caller gave are the kept names read backwards.
C18_OrderByLeftToRight ==
    \A q \in DOMAIN queries :
        queries[q].ordering # NoOrdering =>
            LET o == queries[q].ordering
                names == [i \in DOMAIN o.names |-> o.names[Len(o.names) + 1 - i]]
                tuple(k) == [i \in DOMAIN names |->
                                PayloadRank(dict_get(records[k], names[i]).v)]
                result == start_search(queries[q], records).todo
            IN (\A i, j \in DOMAIN result : i # j => tuple(result[i]) # tuple(result[j]))
               => \A i, j \in DOMAIN result :
                      i < j => IF o.reverse
                               THEN list_less(tuple(result[j]), tuple(result[i]))
                               ELSE list_less(tuple(result[i]), tuple(result[j]))

-----------------------------------------------------------------------------
(* Unknown lookup operators; unregister                                    *)

\* C23 (as stated): where and where_not with a condition whose operator has
\* no handler in the lookup registry of the storage fail with
\* LookupProcessorDoesNotExist, the lookup kind of the processor-not-found
\* error and not the converter kind, and return no query.
C23_UnknownOperatorIsLookupError ==
    \A q \in DOMAIN queries, l \in Lookups :
        Truthy(l.operation) /\ l.operation \notin DOMAIN processors =>
            /\ where(queries[q], l, l.value).raised = "LookupProcessorDoesNotExist"
            /\ where(queries[q], l, l.value).value = None
            /\ where_not(queries[q], l, l.value).raised = "LookupProcessorDoesNotExist"
            /\ where_not(queries[q], l, l.value).value = None

\* C25: unregister(key) of a key that has a handler returns the handler and
\* removes only that mapping, after which register(key, p) succeeds for every
\* handler p; unregister(key) of a key without a handler fails with a
\* processor-not-found error and leaves the handlers and the default as they
\* were.
C25_UnregisterRemovesAndReturns ==
    [][reg'.op = "unregister" =>
          IF reg'.key \in DOMAIN processors
          THEN /\ reg'.raised = None
               /\ reg'.value = processors[reg'.key]
               /\ DOMAIN processors' = DOMAIN processors \ {reg'.key}
               /\ \A k \in DOMAIN processors' : processors'[k] = processors[k]
               /\ \A p \in Processors :
                      LET r == register(processors', default', reg'.key, FALSE, p)
                      IN r.raised = None /\ r.processors[reg'.key] = p
          ELSE /\ reg'.raised \in {"ProcessorDoesNotExist", "DataProcessorDoesNotExist",
                                 "LookupProcessorDoesNotExist"}
               /\ reg'.value = None
               /\ processors' = processors
               /\ default' = default]_vars

\* a handler that is also the default was unregistered while another key
\* kept its handler
C25_Witness ==
    /\ reg.op = "unregister" /\ reg.raised = None
    /\ reg.value = default
    /\ reg.key \notin DOMAIN processors
    /\ processors # << >>

-----------------------------------------------------------------------------
(* Storage adapter: save                                                   *)

\* C24: on a connected adapter save(None, data) writes the prepared data
\* under a key that was not present, leaves every existing record as it was
\* and returns that key; save(k, data) with an existing key k replaces the
\* record under k only and returns k; and when the backend primitive returns
\* no key, save fails and returns nothing.
C24_SaveInsertsOrOverwrites ==
    connection # None =>
        \A data \in SampleData :
            /\ \A uid \in FreshKeys(records) :
                   LET r == save(connection, records, None, data, uid) IN
                   /\ r.raised = None
                   /\ r.value \notin DOMAIN records
                   /\ DOMAIN r.records = DOMAIN records \cup {r.value}
                   /\ r.records[r.value] = prepare_data_for_saving(data)
                   /\ \A k \in DOMAIN records : r.records[k] = records[k]
            /\ \A key \in DOMAIN records :
                   LET r == save(connection, records, key, data, None) IN
                   /\ r.raised = None
                   /\ r.value = key
                   /\ DOMAIN r.records = DOMAIN records
                   /\ r.records[key] = prepare_data_for_saving(data)
                   /\ \A k \in DOMAIN records \ {key} : r.records[k] = records[k]
            /\ LET r == save(connection, records, None, data, None) IN
               r.raised = "AssertionError" /\ r.value = None

\* a save without a key stored a second record beside one that differs from it
C24_Witness ==
    /\ ret.op = "save" /\ ret.key = None /\ ret.raised = None
    /\ connection # None
    /\ \E k \in DOMAIN records : k # ret.value /\ records[k] # records[ret.value]

-----------------------------------------------------------------------------
(* Document.save: conversion-exempt fields                                 *)

\* C28 (as stated): of a document saved with Document.save the backend
\* primitive receives, and so the record holds, for every conversion-exempt
\* field the value of the field as it is, not passed through value_to_db, and
\* for every other field of the structure value_to_db of the value, applied
\* once. (The variants here have no outgoing processors.)
C28_ExemptFieldsBypassConversion ==
    dret.op = "save" /\ dret.raised = None =>
        \A f \in DOMAIN structure :
            records[dret.value][f] = IF f \in meta.skip_type_conversion
                                     THEN dret.doc.data[f]
                                     ELSE value_to_db(dret.doc.data[f])

\* C26: with a handler registered for an ancestor B of a type A and none for
\* A or any nearer ancestor, converting a value of type A (to_db) or to type A
\* (from_db) selects B's handler, and the conversion fails with the
\* converter-missing error only when no type in the ancestry has a handler
C26_ResolutionWalksAncestry ==
    reg.op \in {"from_db", "to_db"} /\ reg.key \in {"bool", "unicode"} =>
        LET bases == mro[reg.key]
            hits == {i \in 1..Len(bases) : bases[i] \in DOMAIN processors}
        IN IF hits = {} THEN reg.raised = "DataProcessorDoesNotExist"
           ELSE /\ reg.raised = None
                /\ \E i \in hits : /\ \A j \in hits : i <= j
                                   /\ reg.value = processors[bases[i]]

\* C27: resolution for any Document subclass returns the handler registered
\* under the Document key, resolution for any OneToManyRelation instance the
\* handler registered under the OneToManyRelation key; neither fails when
\* the two handlers are registered
C27_FamiliesShareOneConverter ==
    reg.op \in {"from_db", "to_db"}
    /\ {"Document", "OneToManyRelation"} \subseteq DOMAIN processors =>
        /\ reg.key \in Documents =>
               reg.raised = None /\ reg.value = processors["Document"]
        /\ reg.key \in Relations =>
               reg.raised = None /\ reg.value = processors["OneToManyRelation"]

C27_Witness ==
    /\ reg.op = "from_db" /\ reg.key = "Many(Contact)"
    /\ reg.value = "OneToManyRelation"
    /\ "Note" \in DOMAIN processors

\* C30: each schema dictionary of a derived class holds every entry of each
\* parent's dictionary and the class's own entries, the own entries winning
\* on a conflicting field name, and declaring a class leaves the classes
\* declared before as they were
C30_SchemaMergedFromParents ==
    [][Len(classes') > Len(classes) =>
          LET new == classes'[Len(classes')] IN
          /\ \A i \in 1..Len(classes) : classes'[i] = classes[i]
          /\ \A a \in MetaAttrs :
                 /\ a \in DOMAIN new.attrs =>
                        \A f \in DOMAIN new.attrs[a] :
                            /\ f \in DOMAIN new.meta[a]
                            /\ new.meta[a][f] = new.attrs[a][f]
                 /\ \A i \in 1..Len(new.bases) :
                        LET parent == classes[new.bases[i]].meta[a] IN
                        \A f \in DOMAIN parent :
                            /\ f \in DOMAIN new.meta[a]
                            /\ \/ new.meta[a][f] = parent[f]
                               \/ a \in DOMAIN new.attrs /\ f \in DOMAIN new.attrs[a]
                               \/ \E j \in 1..Len(new.bases) :
                                      LET q == classes[new.bases[j]].meta[a] IN
                                      f \in DOMAIN q /\ new.meta[a][f] = q[f]]_vars

\* C29 (as stated): the type check accepts exactly: a None value; a declared
\* document class with a document of that class or a primary-key string; a
\* declared to-many relation with an iterable value; any other declared type
\* with an instance of it; every other case raises ValidationError
C29_TypeCheckAcceptsExactly ==
    dret.op = "validate_value_type" =>
        LET datatype == dret.key
            value == dret.lookup.value
            a_document == datatype \in Documents
            of_type == \E i \in 1..Len(mro[value.t]) : mro[value.t][i] = datatype
            a_string == value.t \in {"unicode", "basestring"}
            iterable == value.t \in {"list"} \cup Documents
        IN (dret.raised = None) <=>
               \/ value = PyNone
               \/ a_document /\ (of_type \/ a_string)
               \/ datatype \in Relations /\ iterable
               \/ datatype \in Classes /\ ~a_document /\ of_type

\* C29 (amended): the type check accepts exactly the cases above and two
\* more: the field has no declared type, or its type is declared by name
C29_TypeCheckAcceptsDeclaredCases ==
    dret.op = "validate_value_type" =>
        LET datatype == dret.key
            value == dret.lookup.value
            a_document == datatype \in Documents
            of_type == \E i \in 1..Len(mro[value.t]) : mro[value.t][i] = datatype
            a_string == value.t \in {"unicode", "basestring"}
            iterable == value.t \in {"list"} \cup Documents
        IN (dret.raised = None) <=>
               \/ value = PyNone
               \/ datatype = None
               \/ datatype \in LazyPaths
               \/ a_document /\ (of_type \/ a_string)
               \/ datatype \in Relations /\ iterable
               \/ datatype \in Classes /\ ~a_document /\ of_type

C29_Witness ==
    /\ dret.op = "validate_value_type"
    /\ dret.key = "Many(Note)"
    /\ dret.lookup.value = PyText("k1")
    /\ dret.raised = "ValidationError"

\* C22: from_storage over a record in which the conversion of exactly one
\* field fails returns, when break_on_invalid_incoming_data is off, a
\* document bound to the storage and key whose failing field holds the raw
\* stored value and whose other fields hold the converted values; when it is
\* on, the error propagates and no document is returned
C22_FailedConversionKeepsRawValue ==
    dret.op = "from_storage" =>
        LET data == records[dret.key]
            convert(f) == IF f \in meta.skip_type_conversion THEN data[f]
                          ELSE value_from_db(structure[f], data[f])
            failing == {f \in DOMAIN structure : convert(f) = ValueError}
        IN Cardinality(failing) = 1 =>
               IF meta.break_on_invalid_incoming_data
               THEN dret.raised = "ValueError" /\ dret.doc = NoDoc
               ELSE /\ dret.raised = None
                    /\ dret.doc.saved.storage = Shelf
                    /\ dret.doc.saved.key = dret.key
                    /\ \A f \in DOMAIN structure :
                           dret.doc.data[f] = IF f \in failing THEN data[f]
                                              ELSE convert(f)

\* C21: author.book_set of a saved author yields exactly the saved books
\* whose author field refers to the primary key of that author, and no other
\* record
C21_BackwardRelationYieldsReferrers ==
    dret.op = "book_set" =>
        LET pk == docs[dret.d].saved.key IN
        /\ dret.raised = None
        /\ dret.value = {k \in DOMAIN records :
                            /\ "author" \in DOMAIN records[k]
                            /\ records[k]["author"].v = pk}

\* C38: unregister(key) never changes the default handler; after the key
\* whose handler was registered as the default is unregistered,
\* get_processor(None) still returns that handler
C38_UnregisterKeepsDefault ==
    [][reg'.op = "unregister" =>
          /\ default' = default
          /\ default # None =>
                 get_processor(processors', default', None) =
                     [raised |-> None, value |-> default]]_vars

C38_Witness ==
    /\ reg.op = "unregister" /\ reg.raised = None
    /\ default = reg.value
    /\ \A k \in DOMAIN processors : processors[k] # default

\* C36: get, get_many and save called in the deprecated argument order emit
\* a deprecation warning, return what the call in the documented order
\* returns and leave the storage as that call leaves it
C36_LegacyOrderIsEquivalent ==
    [][(ret'.op \in {"get", "get_many", "save"} /\ ret' # ret
        /\ ret'.legacy /\ connection # None) =>
          LET canonical ==
                  CASE ret'.op = "get" -> get(connection, records, ret'.key[1])
                    [] ret'.op = "get_many" -> get_many(connection, records, ret'.key)
                    [] ret'.op = "save" -> save(connection, records, ret'.key[1],
                                                ret'.key[2], ret'.uid)
          IN /\ ret'.warned
             /\ ret'.raised = canonical.raised
             /\ ret'.value = canonical.value
             /\ records' = canonical.records]_vars

\* C35: q.where_not(c) returns a new Query whose conditions are those of q
\* followed by the negated form of c and which matches exactly the records q
\* matches and the negated condition accepts; q itself is unchanged
C35_WhereNotNegates ==
    [][(qret'.op = "where_not" /\ qret' # qret
        /\ qret'.arg.operation \in DOMAIN processors \cup {None}) =>
          LET negated == native_condition(
                             IF qret'.arg.operation = None THEN default
                             ELSE processors[qret'.arg.operation],
                             qret'.arg.name, qret'.arg.value, TRUE)
          IN /\ qret'.raised = None
             /\ Len(queries') = Len(queries) + 1
             /\ queries'[qret'.q] = queries[qret'.q]
             /\ queries'[Len(queries')].conditions =
                    Append(queries[qret'.q].conditions, negated)
             /\ \A k \in DOMAIN records :
                    matches(queries'[Len(queries')], records[k]) <=>
                        (matches(queries[qret'.q], records[k])
                         /\ check(negated, records[k]))]_vars

\* C34: for every query q, in every reachable state, q.count() equals len(q),
\* the number of items of q[:]
C34_CountEqualsLen ==
    \A q \in DOMAIN queries :
        LET all == iterate(queries[q], connection, records, -1) IN
        /\ all.raised = None
        /\ Len(all.value) = count(queries[q], records)

\* C37: when Document.save fails, the SavedState of the document is what it
\* was before the call, whether the storage is missing, the validation failed
\* or the backend returned no key; after a missing storage or a validation
\* error the backend's save primitive was not called and no record changed
C37_FailedSaveKeepsSavedState ==
    [][(dret'.op = "save" /\ dret'.raised # None) =>
          /\ dret'.raised \in {"AttributeError", "ValidationError", "AssertionError"}
          /\ docs'[dret'.d].saved = docs[dret'.d].saved
          /\ dret'.raised \in {"AttributeError", "ValidationError"} =>
                 /\ calls' = << >>
                 /\ records' = records]_vars

\* a save of a document fetched from the storage failed its validation
C37_Witness ==
    /\ dret.op = "save" /\ dret.raised = "ValidationError"
    /\ docs[dret.d].saved # NoState

C32_AccessSeesNewRecords ==
    \A d \in DOMAIN docs :
        LET r == book_set(docs[d], connection, records) IN
        IF docs[d].saved.storage = None \/ docs[d].saved.key = None
        THEN r.raised = "ValueError"
        ELSE /\ r.raised = None
             /\ (dret.op = "save_book" /\ dret.lookup.value.v = docs[d].saved.key)
                    => dret.value \in r.value

\* C39: the attribute '<referencing class>_set' exists on no class before an
\* instance of the referencing class is constructed; it appears on a
\* referenced class only in a step that constructs an instance of a class
\* with a field that refers to it; every such construction sets it on every
\* class the new instance refers to, with the new instance in the descriptor;
\* an attribute once set stays and keeps resolving to the same search
C39_DescriptorInstalledByConstruction ==
    /\ \A r \in DOMAIN Schema : classes.dicts[r] = << >>
    /\ [][/\ \A r \in DOMAIN Schema :
                /\ \A n \in DOMAIN classes.dicts[r] :
                       /\ n \in DOMAIN classes'.dicts[r]
                       /\ resolves_to(classes'.dicts[r][n]) =
                              resolves_to(classes.dicts[r][n])
                /\ \A n \in DOMAIN classes'.dicts[r] \ DOMAIN classes.dicts[r] :
                       /\ dret'.op = "new" /\ dret'.raised = None
                       /\ n = lowercase_name[dret'.key] \o "_set"
                       /\ \E f \in DOMAIN Schema[dret'.key] :
                              get_related_document_class(dret'.key, f) = r
          /\ (dret'.op = "new" /\ dret'.raised = None
              /\ classes'.instances > classes.instances) =>
                 \A f \in DOMAIN Schema[dret'.key] :
                     LET r == get_related_document_class(dret'.key, f)
                         n == lowercase_name[dret'.key] \o "_set"
                     IN r # None =>
                            /\ n \in DOMAIN classes'.dicts[r]
                            /\ classes'.dicts[r][n].related_model =
                                   [cls |-> dret'.key, id |-> classes'.instances]
                            /\ resolves_to(classes'.dicts[r][n]) =
                                   [doc_class |-> dret'.key, field |-> f]]_vars

\* a second Book was constructed: Author.book_set holds a descriptor made
\* for the later instance
C39_Witness ==
    /\ dret.op = "new" /\ dret.key = "Book" /\ dret.raised = None
    /\ "book_set" \in DOMAIN classes.dicts["Author"]
    /\ classes.dicts["Author"]["book_set"].related_model.id > 1
    /\ "note_set" \notin DOMAIN classes.dicts["Author"]

\* C31: reading a reference field of a bound document fetches the referenced
\* document from the bound storage and stores it in place of the raw key,
\* and a later read returns the stored document without a backend fetch;
\* reading a reference field that holds a raw key on a document without a
\* bound storage raises the relation-resolution error (RuntimeError)
C31_ReferenceResolvedOnce ==
    [][(dret'.op = "getitem" /\ dret'.key = "author") =>
          LET doc == docs[dret'.d]
              raw == doc.data["author"]
          IN /\ (raw.t = "unicode" /\ doc.saved = NoState) =>
                    dret'.raised = "RuntimeError"
             /\ (raw.t = "unicode" /\ doc.saved.storage = Shelf
                 /\ raw.v \in DOMAIN records) =>
                    /\ dret'.raised = None
                    /\ dret'.lookup.value = [t |-> "Author", v |-> raw.v, enc |-> 0]
                    /\ docs'[dret'.d].data["author"] = dret'.lookup.value
                    /\ calls' = <<"_get">>
             /\ raw.t = "Author" =>
                    /\ dret'.raised = None
                    /\ dret'.lookup.value = raw
                    /\ docs'[dret'.d] = doc
                    /\ calls' = << >>]_vars

====
